---------------------------- MODULE Spec2Model ----------------------------
(***************************************************************************)
(* Model of the Honestra teleology firewall.                               *)
(*                                                                         *)
(* Text is a sequence of tokens.  A token is an indivisible run of         *)
(* characters: a word ("want", "don't"), one whitespace character (" ",    *)
(* "\n", "\r"), one punctuation character (".", "!", "?", ","), or the     *)
(* Hebrew maqaf, written "U+05BE".  Regular                                *)
(* expressions of the source are modelled on tokens: a literal word of the *)
(* regex is one token, "\s+" is a run of whitespace tokens, "\b" is a      *)
(* change between word and non-word tokens, the /i flag is Fold.           *)
(*                                                                         *)
(* The trigger and substitution catalogs are the rules of the source that  *)
(* the bounded inputs can reach, in source order, each with its line.      *)
(***************************************************************************)
EXTENDS Integers, Sequences, FiniteSets, TLC

VARIABLES pc, op, input, payload, detected, filtered, lastIndex, memo,
          sevIn, sevOut, polIn, polOut, doc, fw, lt

vars == <<pc, op, input, payload, detected, filtered, lastIndex, memo,
          sevIn, sevOut, polIn, polOut, doc, fw, lt>>

---------------------------------------------------------------------------
(* Bounds of the model *)

\* number of phrase pieces an input text is concatenated from
MaxPieces == 2
\* pieces of a text in the repeated-call specification
MaxPiecesDet == 2
\* size of a category set given to computeSeverity
MaxCats == 2
\* sentences without a trigger in a document
MaxClean == 20
\* sentences with a trigger in a document
MaxMarked == 2
\* pieces of a document whose spans are examined
MaxSpanPieces == 3
MaxEnginePieces == 2
MaxLogLines == 2
MaxLabeledLines == 1
MaxPlain == 7
MaxCritique == 3

---------------------------------------------------------------------------
(* Tokens *)

WS == {" ", "\n", "\r"}
Terminators == {".", "!", "?"}
NonWord == WS \cup Terminators \cup {",", "U+05BE"}

IsWordTok(t) == t \notin NonWord

\* String.prototype.toLowerCase / the regex i flag, on the tokens that have
\* an upper-case letter
Fold(t) ==
    CASE t = "I" -> "i"
      [] t = "It" -> "it"
      [] t = "The" -> "the"
      [] t = "My" -> "my"
      [] t = "This" -> "this"
      [] t = "They" -> "they"
      [] t = "He" -> "he"
      [] OTHER -> t

\* String.prototype.trim
RECURSIVE TrimLeft(_)
TrimLeft(s) ==
    IF s = <<>> THEN <<>>
    ELSE IF Head(s) \in WS THEN TrimLeft(Tail(s)) ELSE s

RECURSIVE TrimRight(_)
TrimRight(s) ==
    IF s = <<>> THEN <<>>
    ELSE IF s[Len(s)] \in WS THEN TrimRight(SubSeq(s, 1, Len(s) - 1)) ELSE s

Trim(s) == TrimRight(TrimLeft(s))

---------------------------------------------------------------------------
(* Regular expressions on tokens *)

\* atoms of a pattern
Lit(w) == [k |-> "lit", w |-> w]
Sp == [k |-> "sp", w |-> {}]
Ws == [k |-> "ws", w |-> {}]

\* \b at position i (between token i-1 and token i)
WordAt(s, i) == i >= 1 /\ i <= Len(s) /\ IsWordTok(s[i])
Boundary(s, i) == WordAt(s, i - 1) # WordAt(s, i)

\* first position >= i that holds no whitespace token
RECURSIVE SkipWs(_, _)
SkipWs(s, i) ==
    IF i <= Len(s) /\ s[i] \in WS THEN SkipWs(s, i + 1) ELSE i

\* position after the match of atoms k.. of pat at position i, 0 for no match
RECURSIVE MatchFrom(_, _, _, _)
MatchFrom(pat, k, s, i) ==
    IF k > Len(pat) THEN i
    ELSE IF i > Len(s) THEN 0
    ELSE CASE pat[k].k = "lit" ->
                IF Fold(s[i]) \in pat[k].w THEN MatchFrom(pat, k + 1, s, i + 1) ELSE 0
           [] pat[k].k = "sp" ->
                IF s[i] = " " THEN MatchFrom(pat, k + 1, s, i + 1) ELSE 0
           [] pat[k].k = "ws" ->
                IF s[i] \in WS THEN MatchFrom(pat, k + 1, s, SkipWs(s, i)) ELSE 0

\* the alternatives of a regex are tried in order
RECURSIVE MatchAlts(_, _, _, _)
MatchAlts(alts, a, s, i) ==
    IF a > Len(alts) THEN 0
    ELSE LET e == MatchFrom(alts[a], 1, s, i) IN
         IF e # 0 /\ Boundary(s, e) THEN e ELSE MatchAlts(alts, a + 1, s, i)

\* every modelled regex is of the form \b(alt1|alt2|...)\b
MatchAt(alts, s, i) ==
    LET e == MatchAlts(alts, 1, s, i) IN
    IF e # 0 /\ Boundary(s, i) THEN e ELSE 0

\* leftmost match at a position >= i: <<start, end>>, <<0, 0>> for none
RECURSIVE Search(_, _, _)
Search(alts, s, i) ==
    IF i > Len(s) THEN <<0, 0>>
    ELSE LET e == MatchAt(alts, s, i) IN
         IF e # 0 THEN <<i, e>> ELSE Search(alts, s, i + 1)

\* RegExp.prototype.test: a regex without the g flag searches from the start
\* and leaves lastIndex alone; with the g flag it searches from lastIndex and
\* stores the end of the match (0 after a failed search)
RegexTestSticky(rule, li, s) ==
    LET m == Search(rule.alts, s, li + 1) IN
    [matched |-> m[1] # 0, lastIndex |-> IF m[1] # 0 THEN m[2] - 1 ELSE 0]

RegexTest(rule, li, s) ==
    IF rule.global
    THEN RegexTestSticky(rule, li, s)
    ELSE [matched |-> Search(rule.alts, s, 1)[1] # 0, lastIndex |-> li]

\* String.prototype.replace with a g regex: every match, left to right
RECURSIVE ReplaceFrom(_, _, _, _)
ReplaceFrom(alts, repl, s, i) ==
    IF i > Len(s) THEN <<>>
    ELSE LET e == MatchAt(alts, s, i) IN
         IF e # 0 THEN repl \o ReplaceFrom(alts, repl, s, e)
         ELSE <<s[i]>> \o ReplaceFrom(alts, repl, s, i + 1)

Replace(s, rule) == ReplaceFrom(rule.alts, rule.repl, s, 1)

---------------------------------------------------------------------------
(* Trigger catalog: teleologyPatterns, in source order *)

\* /\bI want to\b/i
PatIWantTo == <<Lit({"i"}), Sp, Lit({"want"}), Sp, Lit({"to"})>>
\* /\bI feel\b/i
PatIFeel == <<Lit({"i"}), Sp, Lit({"feel"})>>
\* /\bthe\s+universe\s+wants?\b/i
PatUniverseWants == <<Lit({"the"}), Ws, Lit({"universe"}), Ws, Lit({"want", "wants"})>>
\* /\bit was meant to be\b/i
PatItWasMeantToBe ==
    <<Lit({"it"}), Sp, Lit({"was"}), Sp, Lit({"meant"}), Sp, Lit({"to"}), Sp, Lit({"be"})>>
\* /\bI have decided\b/i
PatIHaveDecided == <<Lit({"i"}), Sp, Lit({"have"}), Sp, Lit({"decided"})>>
\* /\bthey\s+don't\s+want\s+(?:you|us)\s+to\s+know\b/i
PatTheyDontWant ==
    <<Lit({"they"}), Ws, Lit({"don't"}), Ws, Lit({"want"}), Ws, Lit({"you", "us"}),
      Ws, Lit({"to"}), Ws, Lit({"know"})>>
\* /\bit\s+was\s+(?:meant|supposed)\s+to\s+(?:be|happen)\b/i
PatItWasMeantTo ==
    <<Lit({"it"}), Ws, Lit({"was"}), Ws, Lit({"meant", "supposed"}), Ws, Lit({"to"}),
      Ws, Lit({"be", "happen"})>>
\* /\bmy\s+(?:fear|anxiety|depression|anger)\s+(?:tells?|says?|wants?|knows?)\b/i
PatMyFearTells ==
    <<Lit({"my"}), Ws, Lit({"fear", "anxiety", "depression", "anger"}), Ws,
      Lit({"tell", "tells", "say", "says", "want", "wants", "know", "knows"})>>
\* /\bmeant\s+(?:to\s+be|for\s+me|for\s+each\s+other)\b/i
PatMeantToBe ==
    << <<Lit({"meant"}), Ws, Lit({"to"}), Ws, Lit({"be"})>>,
       <<Lit({"meant"}), Ws, Lit({"for"}), Ws, Lit({"me"})>>,
       <<Lit({"meant"}), Ws, Lit({"for"}), Ws, Lit({"each"}), Ws, Lit({"other"})>> >>

Trigger(alts, reason) == [alts |-> alts, reason |-> reason, global |-> FALSE]

teleologyPatterns ==
    << Trigger(<<PatIWantTo>>, "anthropomorphic_self"),
       Trigger(<<PatIFeel>>, "anthropomorphic_self"),
       Trigger(<<PatUniverseWants>>, "cosmic_purpose"),
       Trigger(<<PatItWasMeantToBe>>, "cosmic_purpose"),
       Trigger(<<PatIHaveDecided>>, "anthropomorphic_self"),
       Trigger(<<PatTheyDontWant>>, "conspiracy"),
       Trigger(<<PatItWasMeantTo>>, "agent_detection"),
       Trigger(<<PatMyFearTells>>, "emotion_personification"),
       Trigger(PatMeantToBe, "destiny_language") >>

RuleIds == 1..Len(teleologyPatterns)

\* lastIndex of every regex object of the catalog after module load
FreshCatalog == [r \in RuleIds |-> 0]

---------------------------------------------------------------------------
(* Substitution rules of rewriteSentence, in source order.  section is the  *)
(* category whose block of the function the rule stands in.                 *)

Subst(alts, repl, section) == [alts |-> alts, repl |-> repl, section |-> section]

\* "I am configured to"
ReplIWantTo == <<"I", " ", "am", " ", "configured", " ", "to">>
\* "I indicate"
ReplIFeel == <<"I", " ", "indicate">>
\* "circumstances tend toward"
ReplUniverseWants == <<"circumstances", " ", "tend", " ", "toward">>
\* "it happened due to causal factors"
ReplItWasMeantToBe ==
    <<"it", " ", "happened", " ", "due", " ", "to", " ", "causal", " ", "factors">>
\* "this information is not widely publicized"
ReplTheyDontWant ==
    <<"this", " ", "information", " ", "is", " ", "not", " ", "widely", " ", "publicized">>
\* "this is how events unfolded"
ReplItWasMeantTo == <<"this", " ", "is", " ", "how", " ", "events", " ", "unfolded">>
\* "when I feel anxious, I tend to think"
ReplMyFearTells ==
    <<"when", " ", "I", " ", "feel", " ", "anxious", ",", " ", "I", " ", "tend", " ",
      "to", " ", "think">>
\* "how things turned out"
ReplMeantToBe == <<"how", " ", "things", " ", "turned", " ", "out">>
\* "well-suited for"
ReplMeantFor == <<"well-suited", " ", "for">>

\* /\bthey\s+don't\s+want\s+you\s+to\s+know\b/gi
SubTheyDontWantYou ==
    <<Lit({"they"}), Ws, Lit({"don't"}), Ws, Lit({"want"}), Ws, Lit({"you"}),
      Ws, Lit({"to"}), Ws, Lit({"know"})>>
\* /\bit\s+was\s+meant\s+to\s+(?:be|happen)\b/gi
SubItWasMeantTo ==
    <<Lit({"it"}), Ws, Lit({"was"}), Ws, Lit({"meant"}), Ws, Lit({"to"}),
      Ws, Lit({"be", "happen"})>>
\* /\bmy\s+(?:fear|anxiety|depression)\s+(?:tells?|says?)\b/gi
SubMyFearTells ==
    <<Lit({"my"}), Ws, Lit({"fear", "anxiety", "depression"}), Ws,
      Lit({"tell", "tells", "say", "says"})>>
\* /\bmeant\s+to\s+be\b/gi
SubMeantToBe == <<Lit({"meant"}), Ws, Lit({"to"}), Ws, Lit({"be"})>>
\* /\bmeant\s+for\s+(?:me|each\s+other)\b/gi
SubMeantFor ==
    << <<Lit({"meant"}), Ws, Lit({"for"}), Ws, Lit({"me"})>>,
       <<Lit({"meant"}), Ws, Lit({"for"}), Ws, Lit({"each"}), Ws, Lit({"other"})>> >>

substitutionRules ==
    << Subst(<<PatIWantTo>>, ReplIWantTo, "anthropomorphic_self"),
       Subst(<<PatIFeel>>, ReplIFeel, "anthropomorphic_self"),
       Subst(<<PatUniverseWants>>, ReplUniverseWants, "cosmic_purpose"),
       Subst(<<PatItWasMeantToBe>>, ReplItWasMeantToBe, "cosmic_purpose"),
       Subst(<<SubTheyDontWantYou>>, ReplTheyDontWant, "conspiracy"),
       Subst(<<SubItWasMeantTo>>, ReplItWasMeantTo, "agent_detection"),
       Subst(<<SubMyFearTells>>, ReplMyFearTells, "emotion_personification"),
       Subst(<<SubMeantToBe>>, ReplMeantToBe, "destiny_language"),
       Subst(SubMeantFor, ReplMeantFor, "destiny_language") >>

---------------------------------------------------------------------------
(* honestra.ts: the sentence pipeline *)

\* position of the first terminator at or after i that is followed by
\* whitespace: the next match of /([.!?]\s+)/ ; 0 for none
RECURSIVE DelimStart(_, _)
DelimStart(text, i) ==
    IF i >= Len(text) THEN 0
    ELSE IF text[i] \in Terminators /\ text[i + 1] \in WS THEN i
    ELSE DelimStart(text, i + 1)

\* text.split(/([.!?]\s+)/).filter((p) => p.length > 0), from position i
RECURSIVE SplitParts(_, _)
SplitParts(text, i) ==
    IF i > Len(text) THEN <<>>
    ELSE LET j == DelimStart(text, i) IN
         IF j = 0 THEN <<SubSeq(text, i, Len(text))>>
         ELSE LET k == SkipWs(text, j + 1) IN
              (IF j > i THEN <<SubSeq(text, i, j - 1)>> ELSE <<>>)
                 \o <<SubSeq(text, j, k - 1)>> \o SplitParts(text, k)

\* /[.!?]\s*$/.test(part)
EndsSentence(part) ==
    LET t == TrimRight(part) IN t # <<>> /\ t[Len(t)] \in Terminators

\* the for loop over parts, then the push of the rest
RECURSIVE SplitLoop(_, _, _, _)
SplitLoop(parts, k, current, sentences) ==
    IF k > Len(parts)
    THEN IF Trim(current) # <<>> THEN Append(sentences, Trim(current)) ELSE sentences
    ELSE LET cur == current \o parts[k] IN
         IF EndsSentence(parts[k])
         THEN SplitLoop(parts, k + 1, <<>>, Append(sentences, Trim(cur)))
         ELSE SplitLoop(parts, k + 1, cur, sentences)

splitIntoSentences(text) ==
    LET sentences == SplitLoop(SplitParts(text, 1), 1, <<>>, <<>>) IN
    IF sentences = <<>> /\ Trim(text) # <<>> THEN <<Trim(text)>> ELSE sentences

Includes(seq, x) == \E i \in 1..Len(seq) : seq[i] = x

\* the loop of detectTeleology over the catalog, from rule r on; li is the
\* lastIndex of the catalog's regex objects
RECURSIVE DetectLoop(_, _, _, _)
\* the body of the loop for a pattern whose regex.test(sentence) gave t
DetectBody(sentence, r, foundReasons, li, pattern, t) ==
    IF t.matched /\ ~Includes(foundReasons, pattern.reason)
    THEN DetectLoop(sentence, r + 1, Append(foundReasons, pattern.reason),
             [li EXCEPT ![r] = t.lastIndex])
    ELSE DetectLoop(sentence, r + 1, foundReasons, [li EXCEPT ![r] = t.lastIndex])

DetectLoop(sentence, r, foundReasons, li) ==
    IF r > Len(li) THEN [reasons |-> foundReasons, lastIndex |-> li]
    ELSE DetectBody(sentence, r, foundReasons, li, teleologyPatterns[r],
             RegexTest(teleologyPatterns[r], li[r], sentence))

\* the mutant stops at the first matching rule
RECURSIVE DetectFirstOnly(_, _, _, _)
DetectFirstBody(sentence, r, foundReasons, li, pattern, t) ==
    IF t.matched
    THEN [reasons |-> <<pattern.reason>>, lastIndex |-> [li EXCEPT ![r] = t.lastIndex]]
    ELSE DetectFirstOnly(sentence, r + 1, foundReasons, [li EXCEPT ![r] = t.lastIndex])

DetectFirstOnly(sentence, r, foundReasons, li) ==
    IF r > Len(li) THEN [reasons |-> foundReasons, lastIndex |-> li]
    ELSE DetectFirstBody(sentence, r, foundReasons, li, teleologyPatterns[r],
             RegexTest(teleologyPatterns[r], li[r], sentence))

DetectFirstMatch(sentence, li) == DetectFirstOnly(sentence, 1, <<>>, li)

detectTeleology(sentence, li) == DetectLoop(sentence, 1, <<>>, li)

\* the chain of replace calls, from rule r on
RECURSIVE RewriteLoop(_, _)
RewriteLoop(rewritten, r) ==
    IF r > Len(substitutionRules) THEN rewritten
    ELSE RewriteLoop(Replace(rewritten, substitutionRules[r]), r + 1)

\* only the rules that stand in the block of the given reason
RECURSIVE RewriteSection(_, _, _)
RewriteSection(rewritten, reason, r) ==
    IF r > Len(substitutionRules) THEN rewritten
    ELSE IF substitutionRules[r].section = reason
         THEN RewriteSection(Replace(rewritten, substitutionRules[r]), reason, r + 1)
         ELSE RewriteSection(rewritten, reason, r + 1)

RewriteDedicated(sentence, reason) == RewriteSection(sentence, reason, 1)

\* the reason parameter is not read by the function
rewriteSentence(sentence, reason) == RewriteLoop(sentence, 1)

shouldRewrite(matched, strictness) == matched

\* teleologyScoreGlobal, in tenths
ScoreWithChanges == 8

ScoreAlways(changes) == IF Len(changes) >= 0 THEN ScoreWithChanges ELSE 0

ScoreByCount(changes) ==
    IF 4 * Len(changes) > 10 THEN 10 ELSE 4 * Len(changes)

teleologyScoreGlobal(changes) == IF Len(changes) > 0 THEN ScoreWithChanges ELSE 0

\* the inner loop of honestraFilter over the reasons of one sentence
RECURSIVE ChangesLoop(_, _, _, _)
ChangesLoop(sentence, reasons, k, changes) ==
    IF k > Len(reasons) THEN changes
    ELSE LET rewritten == rewriteSentence(sentence, reasons[k]) IN
         IF rewritten # sentence
         THEN ChangesLoop(sentence, reasons, k + 1,
                  Append(changes, [original |-> sentence, rewritten |-> rewritten,
                                   reason |-> reasons[k]]))
         ELSE ChangesLoop(sentence, reasons, k + 1, changes)

\* Array.prototype.join(" ")
RECURSIVE Join(_, _)
Join(seqs, k) ==
    IF k > Len(seqs) THEN <<>>
    ELSE IF k = Len(seqs) THEN seqs[k]
    ELSE seqs[k] \o <<" ">> \o Join(seqs, k + 1)

\* the outer loop of honestraFilter over the sentences
RECURSIVE FilterLoop(_, _, _, _, _, _)
\* the body of the loop for a sentence whose detectTeleology gave d; trace
\* records what the classifier returned for every sentence
FilterBody(sentences, k, changes, rewrittenSentences, trace, sentence, d) ==
    IF Len(d.reasons) > 0 /\ shouldRewrite(Len(d.reasons) > 0, "medium")
    THEN FilterLoop(sentences, k + 1,
             ChangesLoop(sentence, d.reasons, 1, changes),
             Append(rewrittenSentences, rewriteSentence(sentence, d.reasons[1])),
             Append(trace, [sentence |-> sentence, reasons |-> d.reasons]),
             d.lastIndex)
    ELSE FilterLoop(sentences, k + 1, changes,
             Append(rewrittenSentences, sentence),
             Append(trace, [sentence |-> sentence, reasons |-> d.reasons]),
             d.lastIndex)

FilterLoop(sentences, k, changes, rewrittenSentences, trace, li) ==
    IF k > Len(sentences)
    THEN [changes |-> changes, rewrittenSentences |-> rewrittenSentences,
          trace |-> trace, lastIndex |-> li]
    ELSE FilterBody(sentences, k, changes, rewrittenSentences, trace, sentences[k],
             detectTeleology(sentences[k], li))

\* the result object built from what the loop left
FilterResult(r) ==
    [filteredText |-> Join(r.rewrittenSentences, 1),
     teleologyScoreGlobal |-> teleologyScoreGlobal(r.changes),
     changes |-> r.changes,
     trace |-> r.trace,
     lastIndex |-> r.lastIndex]

honestraFilter(text, li) ==
    FilterResult(FilterLoop(splitIntoSentences(text), 1, <<>>, <<>>, <<>>, li))

\* Array.from(new Set(array)): the first occurrence of every element
RECURSIVE Distinct(_, _, _)
Distinct(seq, k, out) ==
    IF k > Len(seq) THEN out
    ELSE IF Includes(out, seq[k]) THEN Distinct(seq, k + 1, out)
    ELSE Distinct(seq, k + 1, Append(out, seq[k]))

ReasonsOf(changes) == [i \in 1..Len(changes) |-> changes[i].reason]

---------------------------------------------------------------------------
(* honestraTypes.ts *)

BlockReasons == {"conspiracy", "victim_narrative"}

WarnReasons ==
    {"anthropomorphic_model", "cosmic_purpose", "collective_reification",
     "institutional_reification", "nature_reification", "history_reification",
     "just_world", "body_teleology", "divine_teleology", "karma", "agent_detection",
     "essentialism", "magical_thinking", "destiny_language", "purpose_question",
     "narrative_fallacy"}

InfoReasons ==
    {"anthropomorphic_self", "pathetic_fallacy", "tech_animism", "hindsight_bias",
     "signs_omens", "emotion_personification", "time_teleology"}

\* the type HonestraReason
HonestraReason == BlockReasons \cup WarnReasons \cup InfoReasons

IncludesAny(reasons, set) == \E i \in 1..Len(reasons) : reasons[i] \in set

\* mutant: the info tier is tested before the warn tier
SeverityInfoFirst(reasons) ==
    IF Len(reasons) = 0 THEN "none"
    ELSE IF IncludesAny(reasons, BlockReasons) THEN "block"
    ELSE IF IncludesAny(reasons, InfoReasons) THEN "info"
    ELSE IF IncludesAny(reasons, WarnReasons) THEN "warn"
    ELSE "none"

\* mutant: the narrative categories added last are missing from the tests
SeverityOldCatalog(reasons) ==
    IF Len(reasons) = 0 THEN "none"
    ELSE IF IncludesAny(reasons, {"conspiracy"}) THEN "block"
    ELSE IF IncludesAny(reasons, WarnReasons \ {"destiny_language", "purpose_question"})
         THEN "warn"
    ELSE IF IncludesAny(reasons, InfoReasons) THEN "info"
    ELSE "none"

computeSeverity(reasons) ==
    IF Len(reasons) = 0 THEN "none"
    ELSE IF IncludesAny(reasons, BlockReasons) THEN "block"
    ELSE IF IncludesAny(reasons, WarnReasons) THEN "warn"
    ELSE IF IncludesAny(reasons, InfoReasons) THEN "info"
    ELSE "none"

\* honestraDocument.ts: the rank of a severity
severityToScore(severity) ==
    CASE severity = "none" -> 0
      [] severity = "info" -> 1
      [] severity = "warn" -> 2
      [] severity = "block" -> 3
      [] OTHER -> 0

---------------------------------------------------------------------------
(* honestra.ts: honestraAlertGuard *)

\* mutant: hasTeleology from the detection, not from the changes
\* the payload, with what the call left behind
GuardPayload(result, hasTeleology, reasons) ==
    [payload |-> [hasTeleology |-> hasTeleology,
                  teleologyScore |-> result.teleologyScoreGlobal,
                  reasons |-> reasons,
                  severity |-> computeSeverity(reasons),
                  changes |-> result.changes],
     trace |-> result.trace,
     filteredText |-> result.filteredText,
     lastIndex |-> result.lastIndex]

GuardOfDetection(result) ==
    GuardPayload(result,
        \E i \in 1..Len(result.trace) : result.trace[i].reasons # <<>>,
        Distinct(ReasonsOf(result.changes), 1, <<>>))

GuardByDetection(text, li) == GuardOfDetection(honestraFilter(text, li))

\* mutant: the reasons are those the classifier detected, rewritten or not
RECURSIVE TraceReasons(_, _)
TraceReasons(trace, k) ==
    IF k > Len(trace) THEN <<>>
    ELSE trace[k].reasons \o TraceReasons(trace, k + 1)

GuardOfTrace(result) ==
    GuardPayload(result, Len(result.changes) > 0,
        Distinct(TraceReasons(result.trace, 1), 1, <<>>))

GuardOfResult(result) ==
    GuardPayload(result, Len(result.changes) > 0,
        Distinct(ReasonsOf(result.changes), 1, <<>>))

honestraAlertGuard(text, li) == GuardOfResult(honestraFilter(text, li))

---------------------------------------------------------------------------
(* honestraDocument.ts *)

\* the delimiters of text.split(/(\.|\?|!|\n|\r|\u05be)/g)
DocSplitTokens == {".", "?", "!", "\n", "\r", "U+05BE"}
\* the parts that close a sentence: /[\.?!\n\r]/.test(part)
DocFlushTokens == {".", "?", "!", "\n", "\r"}

\* String.prototype.indexOf(pat, p), positions counted from 0
RECURSIVE IndexOf(_, _, _)
IndexOf(text, pat, p) ==
    IF p + Len(pat) > Len(text) THEN -1
    ELSE IF SubSeq(text, p + 1, p + Len(pat)) = pat THEN p
    ELSE IndexOf(text, pat, p + 1)

\* result.push({ text: trimmed, start, end }); offset = end
DocSpan(trimmed, start, acc) ==
    [result |-> Append(acc.result,
                    [text |-> trimmed, start |-> start, end |-> start + Len(trimmed)]),
     offset |-> start + Len(trimmed)]

\* mutant: the span is the last occurrence of the sentence, text.lastIndexOf
DocPushLastIndexOf(text, trimmed, acc) ==
    IF Len(trimmed) > 0
    THEN DocSpan(trimmed,
             CHOOSE p \in 0..Len(text) :
                 /\ IndexOf(text, trimmed, p) = p
                 /\ \A q \in (p + 1)..Len(text) : IndexOf(text, trimmed, q) = -1,
             acc)
    ELSE acc

\* mutant: the span is searched from the start of the text
DocPushFromStart(text, trimmed, acc) ==
    IF Len(trimmed) > 0 THEN DocSpan(trimmed, IndexOf(text, trimmed, 0), acc) ELSE acc

\* if (trimmed.length > 0) { start = text.indexOf(trimmed, offset); ... }
DocPush(text, trimmed, acc) ==
    IF Len(trimmed) > 0 THEN DocSpan(trimmed, IndexOf(text, trimmed, acc.offset), acc)
    ELSE acc

\* the loop over rawParts, then the push of the rest; a part is a delimiter
\* or a run of other tokens, so adding the parts to the buffer is adding the
\* tokens one by one
RECURSIVE DocSplitLoop(_, _, _, _)
DocSplitLoop(text, i, buffer, acc) ==
    IF i > Len(text) THEN DocPush(text, Trim(buffer), acc).result
    ELSE IF text[i] \in DocSplitTokens /\ text[i] \in DocFlushTokens
         THEN DocSplitLoop(text, i + 1, <<>>,
                  DocPush(text, Trim(Append(buffer, text[i])), acc))
         ELSE DocSplitLoop(text, i + 1, Append(buffer, text[i]), acc)

DocSplitFallback(text, result) ==
    IF Len(result) = 0 /\ Len(Trim(text)) > 0
    THEN <<[text |-> Trim(text), start |-> 0, end |-> Len(Trim(text))]>>
    ELSE result

\* splitIntoSentences of honestraDocument.ts: the spans
splitIntoSentencesDoc(text) ==
    DocSplitFallback(text,
        DocSplitLoop(text, 1, <<>>, [result |-> <<>>, offset |-> 0]))

\* the markers that the texts of the model can hold
CRITIQUE_MARKERS_EN ==
    { <<"it", " ", "is", " ", "a", " ", "mistake", " ", "to", " ", "think">>,
      <<"people", " ", "wrongly", " ", "believe">> }

SELF_BLAME_MARKERS_EN ==
    { <<"punishing", " ", "me">>,
      <<"my", " ", "fault">> }

ToLowerCase(s) == [i \in 1..Len(s) |-> Fold(s[i])]

\* String.prototype.includes
StringIncludes(s, m) ==
    \E p \in 1..(Len(s) - Len(m) + 1) : SubSeq(s, p, p + Len(m) - 1) = m

isCritiqueContext(sentence) ==
    \E m \in CRITIQUE_MARKERS_EN : StringIncludes(ToLowerCase(sentence), m)

hasSelfBlamePatterns(sentence) ==
    \E m \in SELF_BLAME_MARKERS_EN : StringIncludes(ToLowerCase(sentence), m)

\* a number num / den, den > 0
Ratio(num, den) == [num |-> num, den |-> den]
RatioLt(q, num, den) == q.num * den < num * q.den
RatioGt(q, num, den) == q.num * den > num * q.den
RatioGe(q, num, den) == q.num * den >= num * q.den
RatioTimes(q, num, den) == [num |-> q.num * num, den |-> q.den * den]
\* count / teleologicalSentences, 0 when there is no teleological sentence
RatioOrZero(count, teleologicalSentences) ==
    IF teleologicalSentences > 0 THEN Ratio(count, teleologicalSentences)
    ELSE Ratio(0, 1)

MathMax(a, b) == IF a >= b THEN a ELSE b

\* the counters before the loop
DocCounters ==
    [sentences |-> <<>>, teleologicalSentences |-> 0, cosmicSentenceCount |-> 0,
     anthropomorphicSentenceCount |-> 0, teleologyScoreSum |-> 0,
     maxTeleologyScore |-> 0, maxSeverityScore |-> 0]

\* the record pushed for a span
DocSentence(span, index, guard) ==
    [index |-> index, text |-> span.text, startOffset |-> span.start,
     endOffset |-> span.end, guard |-> guard,
     isTeleological |-> guard.hasTeleology,
     isCosmic |-> Includes(guard.reasons, "cosmic_purpose"),
     isAnthropomorphic |-> Includes(guard.reasons, "anthropomorphic_self")
                           \/ Includes(guard.reasons, "anthropomorphic_model"),
     isCritiqueContext |-> isCritiqueContext(span.text)]

\* mutant: the severity of the last teleological sentence, not the maximum
DocCountLast(acc, s) ==
    IF s.isTeleological
    THEN [sentences |-> Append(acc.sentences, s),
          teleologicalSentences |-> acc.teleologicalSentences + 1,
          cosmicSentenceCount |->
              acc.cosmicSentenceCount + (IF s.isCosmic THEN 1 ELSE 0),
          anthropomorphicSentenceCount |->
              acc.anthropomorphicSentenceCount + (IF s.isAnthropomorphic THEN 1 ELSE 0),
          teleologyScoreSum |-> acc.teleologyScoreSum + s.guard.teleologyScore,
          maxTeleologyScore |-> MathMax(acc.maxTeleologyScore, s.guard.teleologyScore),
          maxSeverityScore |-> severityToScore(s.guard.severity)]
    ELSE [acc EXCEPT !.sentences = Append(@, s)]

\* if (isTeleological) { ... } sentences.push(...)
DocCount(acc, s) ==
    IF s.isTeleological
    THEN [sentences |-> Append(acc.sentences, s),
          teleologicalSentences |-> acc.teleologicalSentences + 1,
          cosmicSentenceCount |->
              acc.cosmicSentenceCount + (IF s.isCosmic THEN 1 ELSE 0),
          anthropomorphicSentenceCount |->
              acc.anthropomorphicSentenceCount + (IF s.isAnthropomorphic THEN 1 ELSE 0),
          teleologyScoreSum |-> acc.teleologyScoreSum + s.guard.teleologyScore,
          maxTeleologyScore |-> MathMax(acc.maxTeleologyScore, s.guard.teleologyScore),
          maxSeverityScore |->
              MathMax(acc.maxSeverityScore, severityToScore(s.guard.severity))]
    ELSE [acc EXCEPT !.sentences = Append(@, s)]

\* sentenceSpans.forEach: one guard call per span
RECURSIVE DocLoop(_, _, _, _)
DocBody(spans, index, acc, g) ==
    DocLoop(spans, index + 1,
        DocCount(acc, DocSentence(spans[index], index - 1, g.payload)),
        g.lastIndex)

\* forEach pushes one sentence per span: it ends when all are pushed
DocLoop(spans, index, acc, li) ==
    IF Len(acc.sentences) >= Len(spans) THEN [counters |-> acc, lastIndex |-> li]
    ELSE DocBody(spans, index, acc, honestraAlertGuard(spans[index].text, li))

\* sentences.filter((s) => s.isTeleological && s.isCritiqueContext).length
teleologicalCritiqueCount(sentences) ==
    Cardinality({i \in 1..Len(sentences) :
                    sentences[i].isTeleological /\ sentences[i].isCritiqueContext})

hasSelfBlameCosmic(sentences) ==
    \E i \in 1..Len(sentences) :
        /\ sentences[i].isTeleological
        /\ sentences[i].isCosmic
        /\ hasSelfBlamePatterns(sentences[i].text)

\* mutant: the thresholds of the critique ratio are inclusive
CritiqueStepInclusive(infiltrationScore, critiqueRatio) ==
    IF RatioGe(critiqueRatio, 6, 10) THEN RatioTimes(infiltrationScore, 3, 10)
    ELSE IF RatioGe(critiqueRatio, 3, 10) THEN RatioTimes(infiltrationScore, 6, 10)
    ELSE infiltrationScore

\* the steps of the infiltration heuristic on the score
CritiqueStep(infiltrationScore, critiqueRatio) ==
    IF RatioGt(critiqueRatio, 6, 10) THEN RatioTimes(infiltrationScore, 3, 10)
    ELSE IF RatioGt(critiqueRatio, 3, 10) THEN RatioTimes(infiltrationScore, 6, 10)
    ELSE infiltrationScore

CosmicStep(infiltrationScore, cosmicRatio) ==
    IF RatioGt(cosmicRatio, 5, 10) THEN RatioTimes(infiltrationScore, 12, 10)
    ELSE infiltrationScore

\* mutant: the self-blame multiplier is 12
SelfBlameStepTwelve(infiltrationScore, selfBlameCosmic) ==
    IF selfBlameCosmic THEN RatioTimes(infiltrationScore, 12, 1) ELSE infiltrationScore

SelfBlameStep(infiltrationScore, selfBlameCosmic) ==
    IF selfBlameCosmic THEN RatioTimes(infiltrationScore, 12, 10) ELSE infiltrationScore

\* mutant: no clamp
ClampNone(q) == q

\* Math.max(0, Math.min(1, infiltrationScore))
Clamp01(q) ==
    IF q.num > q.den THEN Ratio(1, 1)
    ELSE IF q.num < 0 THEN Ratio(0, 1)
    ELSE q

\* mutant: high from one half on
LabelHighAtHalf(infiltrationScore) ==
    IF RatioGe(infiltrationScore, 5, 10) THEN "high"
    ELSE IF RatioGe(infiltrationScore, 25, 100) THEN "medium"
    ELSE "low"

infiltrationLabel(infiltrationScore) ==
    IF RatioGe(infiltrationScore, 6, 10) THEN "high"
    ELSE IF RatioGe(infiltrationScore, 25, 100) THEN "medium"
    ELSE "low"

\* mutant: the density is not consulted
StatusByInfiltration(teleologyDensity, infiltrationScore) ==
    IF RatioLt(infiltrationScore, 2, 10) THEN "globally_clean"
    ELSE IF RatioLt(infiltrationScore, 6, 10) THEN "mixed"
    ELSE "globally_teleological"

documentStatus(teleologyDensity, infiltrationScore) ==
    IF RatioLt(teleologyDensity, 5, 100) /\ RatioLt(infiltrationScore, 2, 10)
    THEN "globally_clean"
    ELSE IF RatioLt(infiltrationScore, 6, 10) THEN "mixed"
    ELSE "globally_teleological"

maxSeverity(maxSeverityScore) ==
    IF maxSeverityScore >= 3 THEN "block"
    ELSE IF maxSeverityScore >= 2 THEN "warn"
    ELSE IF maxSeverityScore >= 1 THEN "info"
    ELSE "none"

\* sentences.length || 1
totalSentences(sentences) == IF Len(sentences) = 0 THEN 1 ELSE Len(sentences)

infiltrationScore(c, teleologyDensity) ==
    Clamp01(
        SelfBlameStep(
            CosmicStep(
                CritiqueStep(teleologyDensity,
                    RatioOrZero(teleologicalCritiqueCount(c.sentences),
                                c.teleologicalSentences)),
                RatioOrZero(c.cosmicSentenceCount, c.teleologicalSentences)),
            hasSelfBlameCosmic(c.sentences)))

\* the summary object; scores of sentences are in tenths
DocSummary(c, teleologyDensity, score) ==
    [totalSentences |-> totalSentences(c.sentences),
     teleologicalSentences |-> c.teleologicalSentences,
     teleologyDensity |-> teleologyDensity,
     cosmicSentenceCount |-> c.cosmicSentenceCount,
     cosmicRatio |-> RatioOrZero(c.cosmicSentenceCount, c.teleologicalSentences),
     anthropomorphicSentenceCount |-> c.anthropomorphicSentenceCount,
     averageTeleologyScore |-> RatioOrZero(c.teleologyScoreSum, c.teleologicalSentences),
     maxTeleologyScore |-> c.maxTeleologyScore,
     maxSeverity |-> maxSeverity(c.maxSeverityScore),
     documentStatus |-> documentStatus(teleologyDensity, score),
     infiltrationScore |-> score,
     infiltrationLabel |-> infiltrationLabel(score)]

DocDensity(c) == Ratio(c.teleologicalSentences, totalSentences(c.sentences))

DocScored(c, teleologyDensity) ==
    DocSummary(c, teleologyDensity, infiltrationScore(c, teleologyDensity))

DocAnalysis(r) ==
    [sentences |-> r.counters.sentences,
     summary |-> DocScored(r.counters, DocDensity(r.counters)),
     lastIndex |-> r.lastIndex]

\* the analysis, with what the call left in the catalog
analyzeDocumentTeleology(text, li) ==
    DocAnalysis(DocLoop(splitIntoSentencesDoc(text), 1, DocCounters, li))

---------------------------------------------------------------------------
(* teleologyPolicy.ts; scores in hundredths *)

minScoreForPolicy == 20
highRiskScore == 70

defaultConfig == [minScoreForPolicy |-> minScoreForPolicy, highRiskScore |-> highRiskScore]

HardFraming == {"moralistic", "religious", "national/ideological"}

\* mutant: the risk is consulted before the allow rule
PolicyRiskFirst(analysis, config) ==
    IF analysis.manipulationRisk = "high" THEN "block"
    ELSE IF analysis.teleologyScore < config.minScoreForPolicy
            \/ analysis.teleologyType = "null"
            \/ analysis.teleologyType = "harmless/weak" THEN "allow"
    ELSE IF analysis.teleologyType \in HardFraming
            /\ analysis.teleologyScore >= config.highRiskScore THEN "block"
    ELSE IF analysis.teleologyType \in HardFraming
            \/ analysis.manipulationRisk = "medium" THEN "warn"
    ELSE "annotate"

\* the action of the decision; teleologyType null is the string "null"
evaluateTeleologyPolicy(analysis, config) ==
    LET score == analysis.teleologyScore
        teleologyType == analysis.teleologyType
        manipulationRisk == analysis.manipulationRisk
        isHardFraming == teleologyType \in HardFraming
    IN IF score < config.minScoreForPolicy \/ teleologyType = "null"
          \/ teleologyType = "harmless/weak" THEN "allow"
       ELSE IF (isHardFraming /\ score >= config.highRiskScore)
               \/ manipulationRisk = "high" THEN "block"
       ELSE IF isHardFraming \/ manipulationRisk = "medium" THEN "warn"
       ELSE "annotate"

---------------------------------------------------------------------------
(* teleologyEngine.ts and the /api/firewall route; scores in hundredths *)

\* the keywords a token holds as a run of its characters
Infixes(t) ==
    CASE t = "deserves" -> {"deserves", "deserve"}
      [] t = "nations" -> {"nations", "nation"}
      [] OTHER -> {t}

\* lower.includes(k) for a phrase k given as tokens
LowerIncludes(lower, k) ==
    \E p \in 0..(Len(lower) - Len(k)) :
        \A j \in 1..Len(k) : k[j] \in Infixes(lower[p + j])

teleologyKeywords ==
    << <<"in", " ", "order", " ", "to">>,
       <<"so", " ", "that">>,
       <<"meant", " ", "to">>,
       <<"trying", " ", "to">>,
       <<"supposed", " ", "to">>,
       <<"punishment">>,
       <<"deserves">>,
       <<"deserve">>,
       <<"fate">>,
       <<"destiny">>,
       <<"chosen">>,
       <<"god", " ", "wants">>,
       <<"history", " ", "wants">>,
       <<"the", " ", "universe", " ", "wants">>,
       <<"the", " ", "world", " ", "is">>,
       <<"the", " ", "world", " ", "wants">>,
       <<"teaching", " ", "me">>,
       <<"showing", " ", "me">>,
       <<"telling", " ", "me">> >>

\* teleologyKeywords.filter((k) => lower.includes(k))
RECURSIVE KeywordFilter(_, _)
KeywordFilter(lower, k) ==
    IF k > Len(teleologyKeywords) THEN <<>>
    ELSE (IF LowerIncludes(lower, teleologyKeywords[k])
          THEN <<teleologyKeywords[k]>> ELSE <<>>) \o KeywordFilter(lower, k + 1)

\* mutant: the score has no base of 0.3
EngineScoreNoBase(phrases) ==
    IF Len(phrases) * 10 > 100 THEN 100 ELSE Len(phrases) * 10

\* Math.min(1, 0.3 + detected.length * 0.1), 0 without a keyword
engineScore(phrases) ==
    IF Len(phrases) > 0
    THEN (IF 30 + Len(phrases) * 10 > 100 THEN 100 ELSE 30 + Len(phrases) * 10)
    ELSE 0

IncludesWord(lower, words) == \E w \in words : LowerIncludes(lower, w)

engineType(lower, score) ==
    IF score = 0 THEN "null"
    ELSE IF IncludesWord(lower, {<<"god">>, <<"universe">>, <<"fate">>, <<"destiny">>})
         THEN "religious"
    ELSE IF IncludesWord(lower, {<<"nation">>, <<"history">>, <<"the", " ", "people">>})
         THEN "national/ideological"
    ELSE IF IncludesWord(lower, {<<"conspiracy">>, <<"they", " ", "are", " ", "all">>,
                                 <<"everything", " ", "is", " ", "orchestrated">>})
         THEN "conspiracy"
    ELSE "personal"

engineRisk(lower, score, teleologyType) ==
    IF score = 0 THEN "low"
    ELSE IF IncludesWord(lower, {<<"deserve">>, <<"punishment">>, <<"cleanse">>,
                                 <<"eradicate">>})
         THEN "high"
    ELSE IF teleologyType \in {"religious", "national/ideological", "conspiracy"}
         THEN "medium"
    ELSE "low"

EngineClassified(lower, phrases, score) ==
    [teleologyScore |-> score,
     teleologyType |-> engineType(lower, score),
     manipulationRisk |-> engineRisk(lower, score, engineType(lower, score)),
     detectedPhrases |-> phrases]

EngineScored(lower, phrases) == EngineClassified(lower, phrases, engineScore(phrases))

\* analyzeTeleology up to the call of generateTeleologySummaries
EngineHeuristics(inputText) ==
    EngineScored(ToLowerCase(inputText), KeywordFilter(ToLowerCase(inputText), 1))

\* a value that is null or a string
NullValue == [null |-> TRUE, str |-> <<>>]
StringValue(str) == [null |-> FALSE, str |-> str]
NullSummaries ==
    [threw |-> FALSE, purposeClaim |-> NullValue, neutralCausalParaphrase |-> NullValue]
ThrownSummaries ==
    [threw |-> TRUE, purposeClaim |-> NullValue, neutralCausalParaphrase |-> NullValue]

\* typeof field === "string" && field.trim().length > 0 ? field.trim() : null
SummaryField(field) ==
    IF field.type = "string" /\ Len(Trim(field.str)) > 0 THEN StringValue(Trim(field.str))
    ELSE NullValue

\* the body of the try block for a settled call; threw: an exception leaves it
SummariesTry(outcome) ==
    IF outcome.kind # "response" THEN ThrownSummaries
    ELSE IF outcome.raw = "empty" THEN NullSummaries
    ELSE IF outcome.raw = "nonjson" THEN NullSummaries
    ELSE IF outcome.raw = "null" THEN ThrownSummaries
    ELSE [threw |-> FALSE,
          purposeClaim |-> SummaryField(outcome.purposeClaim),
          neutralCausalParaphrase |-> SummaryField(outcome.neutralCausalParaphrase)]

\* mutant: no catch around the call
SummariesUncaught(tried) == tried

\* catch (err) { return { purposeClaim: null, neutralCausalParaphrase: null } }
SummariesCatch(tried) == IF tried.threw THEN NullSummaries ELSE tried

\* generateTeleologySummaries once the call has settled
generateTeleologySummaries(outcome) == SummariesCatch(SummariesTry(outcome))

\* the analysis object; an exception of the awaited call leaves analyzeTeleology
EngineAnalysis(heuristics, summaries) ==
    [threw |-> summaries.threw,
     teleologyScore |-> heuristics.teleologyScore,
     teleologyType |-> heuristics.teleologyType,
     manipulationRisk |-> heuristics.manipulationRisk,
     detectedPhrases |-> heuristics.detectedPhrases,
     purposeClaim |-> summaries.purposeClaim,
     neutralCausalParaphrase |-> summaries.neutralCausalParaphrase]

\* the route after analyzeTeleology: decision and response, 500 in the catch
FirewallResponse(analysis) ==
    IF analysis.threw
    THEN [status |-> 500, action |-> "none", analysis |-> analysis]
    ELSE [status |-> 200,
          action |-> evaluateTeleologyPolicy(analysis, defaultConfig),
          analysis |-> analysis]

NoOutcome ==
    [kind |-> "none", raw |-> "none",
     purposeClaim |-> [type |-> "undefined", str |-> <<>>],
     neutralCausalParaphrase |-> [type |-> "undefined", str |-> <<>>]]

\* the values a field of the parsed object can have
FieldValues ==
    { [type |-> "undefined", str |-> <<>>],
      [type |-> "number", str |-> <<>>],
      [type |-> "string", str |-> <<" ">>],
      [type |-> "string", str |-> <<" ", "causes", " ">>] }

\* what the external service, or the client in front of it, can answer
LlmOutcomes ==
    { [NoOutcome EXCEPT !.kind = k] : k \in {"network_error", "timeout_error"} }
    \cup { [NoOutcome EXCEPT !.kind = "response", !.raw = r] :
              r \in {"empty", "nonjson", "null"} }
    \cup { [kind |-> "response", raw |-> "object", purposeClaim |-> a,
            neutralCausalParaphrase |-> b] : a, b \in FieldValues }

---------------------------------------------------------------------------
(* scripts/labelHonestraLogs.ts *)

\* `${entry.timestamp}::${entry.sessionId || 'no-session'}`; an absent
\* sessionId is "undefined" here
getEntryKey(entry) ==
    <<entry.timestamp, "::",
      IF entry.sessionId \in {"undefined", ""} THEN "no-session" ELSE entry.sessionId>>

\* mutant: reading stops at the first line that does not parse
RECURSIVE LoadUntilError(_, _)
LoadUntilError(file, i) ==
    IF i > Len(file) THEN {}
    ELSE IF file[i].kind = "blank" THEN LoadUntilError(file, i + 1)
    ELSE IF file[i].kind = "garbage" THEN {}
    ELSE {getEntryKey(file[i])} \cup LoadUntilError(file, i + 1)

\* loadLabeledEntries from line i of the output file: blank lines and lines
\* that do not parse add no key
RECURSIVE loadLabeledEntries(_, _)
loadLabeledEntries(file, i) ==
    IF i > Len(file) THEN {}
    ELSE IF file[i].kind \in {"blank", "garbage"} THEN loadLabeledEntries(file, i + 1)
    ELSE {getEntryKey(file[i])} \cup loadLabeledEntries(file, i + 1)

\* { ...entry, skip: true }
SkippedEntry(entry) ==
    [kind |-> "entry", timestamp |-> entry.timestamp, sessionId |-> entry.sessionId,
     skip |-> TRUE, teleology_level |-> "none", adequacy_level |-> "none",
     teleology_note |-> <<>>, adequacy_note |-> <<>>]

\* { ...entry, teleology_level, adequacy_level } with the notes that are not empty
LabeledEntry(entry, teleology, adequacy) ==
    [kind |-> "entry", timestamp |-> entry.timestamp, sessionId |-> entry.sessionId,
     skip |-> FALSE, teleology_level |-> teleology.level,
     adequacy_level |-> adequacy.level,
     teleology_note |-> teleology.note, adequacy_note |-> adequacy.note]

\* fs.appendFileSync(OUTPUT_FILE, JSON.stringify(entry) + '\n')
writeLabeledEntry(file, entry) == Append(file, entry)

\* mutant: every entry of the log is displayed
RECURSIVE MainLoopNoSkip(_, _, _)
MainLoopNoSkip(session, log, labeledKeys) ==
    IF session.pos >= Len(log) THEN [session EXCEPT !.prompt = "none"]
    ELSE IF log[session.pos + 1].kind \in {"blank", "garbage"}
    THEN MainLoopNoSkip([session EXCEPT !.pos = @ + 1], log, labeledKeys)
    ELSE [session EXCEPT !.pos = @ + 1, !.index = @ + 1,
                         !.shown = Append(@, session.pos + 1),
                         !.prompt = "teleology"]

\* the for await loop of main from the next line of the log to the next
\* prompt: lines that are blank or do not parse yield nothing, an entry whose
\* key is loaded is passed over, another one is displayed
RECURSIVE MainLoop(_, _, _)
MainLoop(session, log, labeledKeys) ==
    IF session.pos >= Len(log) THEN [session EXCEPT !.prompt = "none"]
    ELSE IF log[session.pos + 1].kind \in {"blank", "garbage"}
    THEN MainLoop([session EXCEPT !.pos = @ + 1], log, labeledKeys)
    ELSE IF getEntryKey(log[session.pos + 1]) \in labeledKeys
    THEN MainLoop([session EXCEPT !.pos = @ + 1, !.index = @ + 1,
                                  !.passed = Append(@, session.pos + 1)],
                  log, labeledKeys)
    ELSE [session EXCEPT !.pos = @ + 1, !.index = @ + 1,
                         !.shown = Append(@, session.pos + 1),
                         !.prompt = "teleology"]

NoAnswer == [level |-> "none", note |-> <<>>]

\* the position of main before the log is read
NoSession ==
    [pos |-> 0, index |-> 0, shown |-> <<>>, passed |-> <<>>, prompt |-> "none",
     labeledCount |-> 0, skippedCount |-> 0, teleology |-> NoAnswer,
     adequacy |-> NoAnswer, asked |-> "none", answer |-> <<>>, closed |-> FALSE,
     exitCode |-> 0]

Levels == {<<"0">>, <<"1">>, <<"2">>}

---------------------------------------------------------------------------
(* Inputs *)

\* phrases of the request texts, each followed by a space or by the end of a
\* sentence, and the separators alone
Pieces ==
    { <<"I", " ", "want", " ", "to", " ">>,
      <<"I", " ", "want", " ", "to", ".", " ">>,
      <<"I", " ", "have", " ", "decided", " ">>,
      <<"I", " ", "have", " ", "decided", ".", " ">>,
      <<"the", " ", "universe", " ", "wants", " ">>,
      <<"the", " ", "universe", " ", "wants", ".", " ">>,
      <<"It", " ", "was", " ", "meant", " ", "to", " ", "be", " ">>,
      <<"It", " ", "was", " ", "meant", " ", "to", " ", "be", ".", " ">>,
      <<"they", " ", "don't", " ", "want", " ", "you", " ", "to", " ", "know", " ">>,
      <<"they", " ", "don't", " ", "want", " ", "you", " ", "to", " ", "know", ".", " ">>,
      <<"they", " ", "don't", " ", "want", " ", "us", " ", "to", " ", "know", " ">>,
      <<"My", " ", "fear", " ", "tells", " ">>,
      <<"I", " ", "feel", " ">>,
      <<"help">>,
      <<"?", " ">>,
      <<".">>,
      <<" ">>,
      <<"\n">> }

\* the pieces of the texts of repeated calls
PiecesDet ==
    { <<"I", " ", "want", " ", "to", " ">>,
      <<"It", " ", "was", " ", "meant", " ", "to", " ", "be", ".", " ">>,
      <<" ">> }

\* the texts made of at most n pieces
RECURSIVE TextsOf(_, _)
TextsOf(pieces, n) ==
    IF n = 0 THEN {<<>>}
    ELSE LET T == TextsOf(pieces, n - 1) IN T \cup {t \o p : t \in T, p \in pieces}

Inputs == TextsOf(Pieces, MaxPieces)
InputsDet == TextsOf(PiecesDet, MaxPiecesDet)

\* a sentence of a document in which no rule matches
DocCleanSentence == <<"help", ".", " ">>

\* sentences of a document in which a rule matches: cosmic purpose, the same
\* under a critique marker, the same with a self-blame marker, conspiracy,
\* self as agent, and a trigger that has no substitution
DocMarkedSentences ==
    { <<"the", " ", "universe", " ", "wants", ".", " ">>,
      <<"It", " ", "is", " ", "a", " ", "mistake", " ", "to", " ", "think", " ",
        "the", " ", "universe", " ", "wants", ".", " ">>,
      <<"It", " ", "was", " ", "meant", " ", "to", " ", "be", " ", "my", " ",
        "fault", ".", " ">>,
      <<"they", " ", "don't", " ", "want", " ", "you", " ", "to", " ", "know", ".", " ">>,
      <<"I", " ", "want", " ", "to", ".", " ">>,
      <<"I", " ", "have", " ", "decided", ".", " ">> }

RECURSIVE Repeat(_, _)
Repeat(piece, n) == IF n = 0 THEN <<>> ELSE piece \o Repeat(piece, n - 1)

\* documents: clean sentences followed by sentences with a trigger
DocInputs ==
    {Repeat(DocCleanSentence, n) \o m :
        n \in 0..MaxClean, m \in TextsOf(DocMarkedSentences, MaxMarked)}

\* a teleological sentence, and the same under a critique marker
DocPlainSentence == <<"I", " ", "want", " ", "to", ".", " ">>
DocCritiqueSentence ==
    <<"people", " ", "wrongly", " ", "believe", " ", "I", " ", "want", " ", "to",
      ".", " ">>

\* documents of teleological sentences of which some stand in critique context
RatioInputs ==
    {Repeat(DocPlainSentence, a) \o Repeat(DocCritiqueSentence, b) :
        a \in 0..MaxPlain, b \in 0..MaxCritique}

\* pieces of documents with repeated sentences, line ends and a maqaf
SpanPieces ==
    { <<"help", ".">>,
      <<"help">>,
      <<" ">>,
      <<"\n">>,
      <<"U+05BE">>,
      <<"?">>,
      <<"I", " ", "want", " ", "to", "!", " ">> }

SpanInputs == TextsOf(SpanPieces, MaxSpanPieces)

\* the arrays of at most n reasons
RECURSIVE ReasonArrays(_)
ReasonArrays(n) ==
    IF n = 0 THEN {<<>>}
    ELSE LET A == ReasonArrays(n - 1) IN A \cup {Append(a, c) : a \in A, c \in HonestraReason}

\* the elements of seq at the positions in I, in order
RECURSIVE Pick(_, _, _)
Pick(seq, I, k) ==
    IF k > Len(seq) THEN <<>>
    ELSE (IF k \in I THEN <<seq[k]>> ELSE <<>>) \o Pick(seq, I, k + 1)

\* the request of the API documentation
DocumentedText ==
    <<"This", " ", "war", " ", "is", " ", "happening", " ", "so", " ", "that", " ",
      "our", " ", "nation", " ", "will", " ", "be", " ", "purified", ".">>

EnginePieces ==
    { <<"so", " ", "that", " ">>,
      <<"He", " ", "deserves", " ", "punishment", " ">>,
      <<"fate", " ", "destiny", " ", "chosen", " ", "meant", " ", "to", " ">>,
      <<"history", " ", "wants", " ">>,
      <<"They", " ", "are", " ", "all", " ">>,
      <<"the", " ", "world", " ", "is", " ">>,
      <<"trying", " ", "to", " ">>,
      <<"help", " ">>,
      <<" ">> }

EngineInputs == TextsOf(EnginePieces, MaxEnginePieces) \cup {DocumentedText}

\* entries of logs/honestra_log.jsonl: timestamp and sessionId
LogEntries ==
    { [kind |-> "entry", timestamp |-> "t1", sessionId |-> "undefined"],
      [kind |-> "entry", timestamp |-> "t1", sessionId |-> "no-session"],
      [kind |-> "entry", timestamp |-> "t1", sessionId |-> "s1"],
      [kind |-> "entry", timestamp |-> "t2", sessionId |-> "undefined"] }

\* a line that is not JSON
GarbageLine == [kind |-> "garbage", timestamp |-> "", sessionId |-> ""]
BlankLine == [kind |-> "blank", timestamp |-> "", sessionId |-> ""]

\* the sequences of at most n elements of S
RECURSIVE SeqsUpTo(_, _)
SeqsUpTo(S, n) ==
    IF n = 0 THEN {<<>>}
    ELSE LET A == SeqsUpTo(S, n - 1) IN A \cup {Append(a, x) : a \in A, x \in S}

LogFiles == SeqsUpTo(LogEntries \cup {GarbageLine, BlankLine}, MaxLogLines)

\* logs/honestra_labeled.jsonl as earlier sessions can have left it
LabeledFiles ==
    SeqsUpTo({SkippedEntry(e) : e \in LogEntries}
                 \cup {[SkippedEntry(GarbageLine) EXCEPT !.kind = "garbage"]},
             MaxLabeledLines)

\* what the annotator types at the prompts
TeleologyAnswers == {<<"q">>, <<" ", "q">>, <<"s">>, <<"1">>, <<"x">>}
AdequacyAnswers == {<<"q">>, <<"2">>}
NoteAnswers == {<<>>, <<"q">>}

Scores == {0, 10, 19, 20, 21, 40, 50, 69, 70, 75, 100}
TeleologyTypes ==
    {"personal", "religious", "moralistic", "national/ideological", "conspiracy",
     "harmless/weak", "null"}
ManipulationRisks == {"low", "medium", "high"}

---------------------------------------------------------------------------
(* The state machine *)

NoPayload ==
    [hasTeleology |-> FALSE, teleologyScore |-> 0, reasons |-> <<>>,
     severity |-> "none", changes |-> <<>>]
NoMemo ==
    [set |-> FALSE, input |-> <<>>, payload |-> NoPayload, interleaved |-> FALSE]
NoDoc ==
    [sentences |-> <<>>,
     summary |-> DocScored(DocCounters, DocDensity(DocCounters))]
NoSev == [sub |-> <<>>, all |-> <<>>]
NoSevOut == [sub |-> "none", all |-> "none"]
NoResponse ==
    [status |-> 0, action |-> "none",
     analysis |-> EngineAnalysis(EngineHeuristics(<<>>), NullSummaries)]
NoFw ==
    [apiKey |-> FALSE, llm |-> "none", outcome |-> NoOutcome,
     heuristics |-> EngineHeuristics(<<>>), response |-> NoResponse]
NoLt ==
    [logMissing |-> FALSE, log |-> <<>>, out |-> <<>>, startLen |-> 0,
     labeledKeys |-> {}, session |-> NoSession]
NoPol == [teleologyScore |-> 0, teleologyType |-> "null", manipulationRisk |-> "low"]

\* a request text has arrived
Init ==
    /\ pc = "idle"
    /\ op = "none"
    /\ input \in Inputs
    /\ payload = NoPayload
    /\ detected = <<>>
    /\ filtered = <<>>
    /\ lastIndex = FreshCatalog
    /\ memo = NoMemo
    /\ sevIn = NoSev
    /\ sevOut = NoSevOut
    /\ polIn = NoPol
    /\ polOut = "none"
    /\ doc = NoDoc
    /\ fw = NoFw
    /\ lt = NoLt

\* a call of honestraAlertGuard(text)
GuardCall(text) ==
    /\ pc = "idle"
    /\ \E g \in {honestraAlertGuard(text, lastIndex)} :
           /\ payload' = g.payload
           /\ detected' = g.trace
           /\ filtered' = g.filteredText
           /\ lastIndex' = g.lastIndex
    /\ pc' = "done"
    /\ op' = "guard"
    /\ input' = text
    /\ UNCHANGED <<memo, sevIn, sevOut, polIn, polOut, doc, fw, lt>>

\* a call of analyzeDocumentTeleology(text); a caller that keeps a payload
\* notes that a document was analysed since
DocumentCall(text) ==
    /\ pc = "idle"
    /\ \E a \in {analyzeDocumentTeleology(text, lastIndex)} :
           /\ doc' = [sentences |-> a.sentences, summary |-> a.summary]
           /\ lastIndex' = a.lastIndex
    /\ pc' = "done"
    /\ op' = "document"
    /\ input' = text
    /\ memo' = IF memo.set THEN [memo EXCEPT !.interleaved = TRUE] ELSE memo
    /\ UNCHANGED <<payload, detected, filtered, sevIn, sevOut, polIn, polOut, fw, lt>>

\* the caller drops the result
Return ==
    /\ pc = "done"
    /\ op \in {"guard", "document", "firewall"}
    /\ pc' = "idle"
    /\ op' = "none"
    /\ input' = <<>>
    /\ payload' = NoPayload
    /\ detected' = <<>>
    /\ filtered' = <<>>
    /\ doc' = NoDoc
    /\ fw' = [NoFw EXCEPT !.apiKey = fw.apiKey]
    /\ UNCHANGED <<lastIndex, memo, sevIn, sevOut, polIn, polOut, lt>>

\* the caller keeps the payload of this call to compare later ones with
ReturnKeep ==
    /\ pc = "done"
    /\ op = "guard"
    /\ ~memo.set
    /\ memo' = [set |-> TRUE, input |-> input, payload |-> payload,
                interleaved |-> FALSE]
    /\ pc' = "idle"
    /\ op' = "none"
    /\ input' = <<>>
    /\ payload' = NoPayload
    /\ detected' = <<>>
    /\ filtered' = <<>>
    /\ UNCHANGED <<lastIndex, sevIn, sevOut, polIn, polOut, doc, fw, lt>>

\* the caller passes the filteredText of the call to a second call of
\* honestraAlertGuard and keeps the first text and payload
GuardAgain ==
    /\ pc = "done"
    /\ op = "guard"
    /\ \E g \in {honestraAlertGuard(filtered, lastIndex)} :
           /\ payload' = g.payload
           /\ detected' = g.trace
           /\ filtered' = g.filteredText
           /\ lastIndex' = g.lastIndex
    /\ memo' = [set |-> TRUE, input |-> input, payload |-> payload,
                interleaved |-> FALSE]
    /\ op' = "refilter"
    /\ input' = filtered
    /\ UNCHANGED <<pc, sevIn, sevOut, polIn, polOut, doc, fw, lt>>

\* POST /api/firewall up to the first suspension: a blank text is answered
\* 400; without a key the summaries are null at once; else the call is sent
FirewallStart(text, heuristics) ==
    IF Len(Trim(text)) = 0
    THEN [fw EXCEPT !.response = [NoResponse EXCEPT !.status = 400]]
    ELSE IF ~fw.apiKey
    THEN [fw EXCEPT !.heuristics = heuristics,
                    !.response = FirewallResponse(EngineAnalysis(heuristics, NullSummaries))]
    ELSE [fw EXCEPT !.heuristics = heuristics, !.llm = "pending"]

FirewallPost(text) ==
    /\ pc = "idle"
    /\ \E f \in {FirewallStart(text, EngineHeuristics(text))} :
           /\ fw' = f
           /\ pc' = IF f.llm = "pending" THEN "awaiting" ELSE "done"
    /\ op' = "firewall"
    /\ input' = text
    /\ UNCHANGED <<payload, detected, filtered, lastIndex, memo, sevIn, sevOut,
                   polIn, polOut, doc, lt>>

\* the external service answers, or the client gives up with an error
LlmSettle(outcome) ==
    /\ pc = "awaiting"
    /\ fw.llm = "pending"
    /\ fw' = [fw EXCEPT !.llm = "settled", !.outcome = outcome]
    /\ UNCHANGED <<pc, op, input, payload, detected, filtered, lastIndex, memo,
                   sevIn, sevOut, polIn, polOut, doc, lt>>

\* the awaited call has settled: summaries, analysis, decision, response
FirewallResume ==
    /\ pc = "awaiting"
    /\ fw.llm = "settled"
    /\ fw' = [fw EXCEPT !.response =
                 FirewallResponse(EngineAnalysis(fw.heuristics,
                                      generateTeleologySummaries(fw.outcome)))]
    /\ pc' = "done"
    /\ UNCHANGED <<op, input, payload, detected, filtered, lastIndex, memo,
                   sevIn, sevOut, polIn, polOut, doc, lt>>

Next ==
    \/ GuardCall(input)
    \/ Return

Spec == Init /\ [][Next]_vars

\* a request, and its filteredText passed through the guard once more
NextRefilter ==
    \/ GuardCall(input)
    \/ GuardAgain

SpecRefilter == Init /\ [][NextRefilter]_vars

\* repeated calls on a process-wide catalog
NextDet ==
    \/ pc = "idle" /\ \E text \in InputsDet : GuardCall(text)
    \/ pc = "idle" /\ \E text \in InputsDet : DocumentCall(text)
    \/ Return
    \/ ReturnKeep

\* requests to /api/firewall, with or without OPENAI_API_KEY in the environment
InitEngine ==
    /\ pc = "idle"
    /\ op = "none"
    /\ input = <<>>
    /\ payload = NoPayload
    /\ detected = <<>>
    /\ filtered = <<>>
    /\ lastIndex = FreshCatalog
    /\ memo = NoMemo
    /\ sevIn = NoSev
    /\ sevOut = NoSevOut
    /\ polIn = NoPol
    /\ polOut = "none"
    /\ doc = NoDoc
    /\ fw \in {[NoFw EXCEPT !.apiKey = k] : k \in BOOLEAN}
    /\ lt = NoLt

NextEngine ==
    \/ \E text \in EngineInputs : FirewallPost(text)
    \/ \E outcome \in LlmOutcomes : LlmSettle(outcome)
    \/ FirewallResume
    \/ Return

SpecEngine == InitEngine /\ [][NextEngine]_vars

\* the route's own steps are taken when they can be; nothing makes the
\* external service answer
SpecEngineFair ==
    /\ InitEngine
    /\ [][NextEngine]_vars
    /\ WF_vars(\E text \in EngineInputs : FirewallPost(text))
    /\ WF_vars(FirewallResume)
    /\ WF_vars(Return)

\* main up to its first prompt: the keys are loaded, the log is opened
\* (process.exit(1) without it) and read up to the first entry to display
MainStarted(session) ==
    IF session.prompt = "none" THEN [session EXCEPT !.closed = TRUE] ELSE session

MainStart ==
    /\ pc = "idle"
    /\ \E keys \in {loadLabeledEntries(lt.out, 1)} :
           lt' = [lt EXCEPT
                    !.labeledKeys = keys,
                    !.startLen = Len(lt.out),
                    !.session =
                        IF lt.logMissing THEN [NoSession EXCEPT !.exitCode = 1]
                        ELSE MainStarted(MainLoop(NoSession, lt.log, keys))]
    /\ pc' = IF lt'.session.prompt = "none" THEN "done" ELSE "prompting"
    /\ op' = "label"
    /\ UNCHANGED <<input, payload, detected, filtered, lastIndex, memo, sevIn,
                   sevOut, polIn, polOut, doc, fw>>

\* the state after the answer to a prompt has been handled
Answered(asked, answer, file, session) ==
    /\ lt' = [lt EXCEPT !.out = file,
                        !.session = [MainStarted(session) EXCEPT !.asked = asked,
                                                                 !.answer = answer]]
    /\ pc' = IF session.prompt = "none" THEN "done" ELSE "prompting"
    /\ UNCHANGED <<op, input, payload, detected, filtered, lastIndex, memo, sevIn,
                   sevOut, polIn, polOut, doc, fw>>

\* getTeleologyLevel: the answer to 'Teleology level?', and main after it
\* for q (break) and s (a skip record, next entry)
TeleologyLevelAnswered(answer) ==
    IF answer = <<"q">>
    THEN Answered("teleology", answer, lt.out, [lt.session EXCEPT !.prompt = "none"])
    ELSE IF answer = <<"s">>
    THEN Answered("teleology", answer,
                  writeLabeledEntry(lt.out, SkippedEntry(lt.log[lt.session.pos])),
                  MainLoop([lt.session EXCEPT !.skippedCount = @ + 1],
                           lt.log, lt.labeledKeys))
    ELSE IF answer \in Levels
    THEN Answered("teleology", answer, lt.out,
                  [lt.session EXCEPT !.prompt = "teleologyNote",
                                     !.teleology = [level |-> answer, note |-> <<>>]])
    ELSE Answered("teleology", answer, lt.out, lt.session)

AnswerTeleologyLevel(line) ==
    /\ pc = "prompting"
    /\ lt.session.prompt = "teleology"
    /\ TeleologyLevelAnswered(Trim(line))

\* getTeleologyLevel: the answer to 'Optional teleology note?'
AnswerTeleologyNote(line) ==
    /\ pc = "prompting"
    /\ lt.session.prompt = "teleologyNote"
    /\ Answered("teleologyNote", Trim(line), lt.out,
                [lt.session EXCEPT !.prompt = "adequacy",
                                   !.teleology.note = Trim(line)])

\* getAdequacyLevel: the answer to 'Adequacy level?'
AdequacyLevelAnswered(answer) ==
    IF answer \in Levels
    THEN Answered("adequacy", answer, lt.out,
                  [lt.session EXCEPT !.prompt = "adequacyNote",
                                     !.adequacy = [level |-> answer, note |-> <<>>]])
    ELSE Answered("adequacy", answer, lt.out, lt.session)

AnswerAdequacyLevel(line) ==
    /\ pc = "prompting"
    /\ lt.session.prompt = "adequacy"
    /\ AdequacyLevelAnswered(Trim(line))

\* getAdequacyLevel: the answer to 'Optional adequacy note?', and main after
\* it: the labeled entry is appended and the loop goes on
AnswerAdequacyNote(line) ==
    /\ pc = "prompting"
    /\ lt.session.prompt = "adequacyNote"
    /\ Answered("adequacyNote", Trim(line),
                writeLabeledEntry(lt.out,
                    LabeledEntry(lt.log[lt.session.pos], lt.session.teleology,
                                 [lt.session.adequacy EXCEPT !.note = Trim(line)])),
                MainLoop([lt.session EXCEPT !.labeledCount = @ + 1,
                                            !.teleology = NoAnswer,
                                            !.adequacy = NoAnswer],
                         lt.log, lt.labeledKeys))

\* the annotator runs the tool again on the same files
MainAgain ==
    /\ pc = "done"
    /\ op = "label"
    /\ pc' = "idle"
    /\ op' = "none"
    /\ lt' = [lt EXCEPT !.session = NoSession, !.labeledKeys = {}]
    /\ UNCHANGED <<input, payload, detected, filtered, lastIndex, memo, sevIn,
                   sevOut, polIn, polOut, doc, fw>>

InitLabel ==
    /\ pc = "idle"
    /\ op = "none"
    /\ input = <<>>
    /\ payload = NoPayload
    /\ detected = <<>>
    /\ filtered = <<>>
    /\ lastIndex = FreshCatalog
    /\ memo = NoMemo
    /\ sevIn = NoSev
    /\ sevOut = NoSevOut
    /\ polIn = NoPol
    /\ polOut = "none"
    /\ doc = NoDoc
    /\ fw = NoFw
    /\ lt \in {[NoLt EXCEPT !.logMissing = m, !.log = l, !.out = o] :
                  m \in BOOLEAN, l \in LogFiles, o \in LabeledFiles}

NextLabel ==
    \/ MainStart
    \/ \E line \in TeleologyAnswers : AnswerTeleologyLevel(line)
    \/ \E line \in NoteAnswers : AnswerTeleologyNote(line)
    \/ \E line \in AdequacyAnswers : AnswerAdequacyLevel(line)
    \/ \E line \in NoteAnswers : AnswerAdequacyNote(line)
    \/ MainAgain

SpecLabel == InitLabel /\ [][NextLabel]_vars

InitDet ==
    /\ pc = "idle"
    /\ op = "none"
    /\ input = <<>>
    /\ payload = NoPayload
    /\ detected = <<>>
    /\ filtered = <<>>
    /\ lastIndex = FreshCatalog
    /\ memo = NoMemo
    /\ sevIn = NoSev
    /\ sevOut = NoSevOut
    /\ polIn = NoPol
    /\ polOut = "none"
    /\ doc = NoDoc
    /\ fw = NoFw
    /\ lt = NoLt

SpecDet == InitDet /\ [][NextDet]_vars

\* a document has arrived
InitDoc ==
    /\ pc = "idle"
    /\ op = "none"
    /\ input \in DocInputs \cup SpanInputs \cup RatioInputs
    /\ payload = NoPayload
    /\ detected = <<>>
    /\ filtered = <<>>
    /\ lastIndex = FreshCatalog
    /\ memo = NoMemo
    /\ sevIn = NoSev
    /\ sevOut = NoSevOut
    /\ polIn = NoPol
    /\ polOut = "none"
    /\ doc = NoDoc
    /\ fw = NoFw
    /\ lt = NoLt

NextDoc ==
    \/ DocumentCall(input)
    \/ Return

SpecDoc == InitDoc /\ [][NextDoc]_vars

\* computeSeverity on an array and on a sub-array of it
InitSeverity ==
    /\ pc = "idle"
    /\ op = "severity"
    /\ input = <<>>
    /\ payload = NoPayload
    /\ detected = <<>>
    /\ filtered = <<>>
    /\ lastIndex = FreshCatalog
    /\ memo = NoMemo
    /\ \E all \in ReasonArrays(MaxCats) : \E I \in SUBSET (1..Len(all)) :
           sevIn = [sub |-> Pick(all, I, 1), all |-> all]
    /\ sevOut = NoSevOut
    /\ polIn = NoPol
    /\ polOut = "none"
    /\ doc = NoDoc
    /\ fw = NoFw
    /\ lt = NoLt

SeverityCall ==
    /\ pc = "idle"
    /\ op = "severity"
    /\ sevOut' = [sub |-> computeSeverity(sevIn.sub), all |-> computeSeverity(sevIn.all)]
    /\ pc' = "done"
    /\ UNCHANGED <<op, input, payload, detected, filtered, lastIndex, memo, sevIn,
                   polIn, polOut, doc, fw, lt>>

NextSeverity == SeverityCall

SpecSeverity == InitSeverity /\ [][NextSeverity]_vars

\* evaluateTeleologyPolicy on an analysis, with the default configuration
InitPolicy ==
    /\ pc = "idle"
    /\ op = "policy"
    /\ input = <<>>
    /\ payload = NoPayload
    /\ detected = <<>>
    /\ filtered = <<>>
    /\ lastIndex = FreshCatalog
    /\ memo = NoMemo
    /\ sevIn = NoSev
    /\ sevOut = NoSevOut
    /\ polIn \in [teleologyScore : Scores, teleologyType : TeleologyTypes,
                  manipulationRisk : ManipulationRisks]
    /\ polOut = "none"
    /\ doc = NoDoc
    /\ fw = NoFw
    /\ lt = NoLt

PolicyCall ==
    /\ pc = "idle"
    /\ op = "policy"
    /\ polOut' = evaluateTeleologyPolicy(polIn, defaultConfig)
    /\ pc' = "done"
    /\ UNCHANGED <<op, input, payload, detected, filtered, lastIndex, memo, sevIn,
                   sevOut, polIn, doc, fw, lt>>

NextPolicy == PolicyCall

SpecPolicy == InitPolicy /\ [][NextPolicy]_vars

---------------------------------------------------------------------------
(* Properties *)

GuardDone == pc = "done" /\ op = "guard"

\* C1: in the payload of honestraAlertGuard, hasTeleology is true iff the
\* changes list is non-empty iff teleologyScore > 0
C1_PayloadInvariant ==
    GuardDone =>
        /\ payload.hasTeleology <=> Len(payload.changes) > 0
        /\ Len(payload.changes) > 0 <=> payload.teleologyScore > 0

C1_Witness ==
    GuardDone /\ payload.hasTeleology /\ Len(payload.changes) > 0
    /\ payload.teleologyScore > 0

\* the changes of the payload whose original is the given sentence
ChangesOf(sentence) ==
    {j \in 1..Len(payload.changes) : payload.changes[j].original = sentence}

\* C2: for every sentence, the classifier detects at least one category iff
\* the guard has changes for the sentence, and the guard reports hasTeleology
\* iff some sentence has a detected category; a sentence in which a trigger
\* rule matches is never reported with hasTeleology = false
C2_DetectedIffReported ==
    GuardDone =>
        /\ \A i \in 1..Len(detected) :
               detected[i].reasons # <<>> <=> ChangesOf(detected[i].sentence) # {}
        /\ payload.hasTeleology <=>
               \E i \in 1..Len(detected) : detected[i].reasons # <<>>

\* the lookup of the categories as the documentation states it
DocBlock == {"conspiracy", "victim_narrative"}
DocInfo ==
    {"anthropomorphic_self", "pathetic_fallacy", "tech_animism", "hindsight_bias",
     "signs_omens", "emotion_personification", "time_teleology"}
DocTier(c) == IF c \in DocBlock THEN 3 ELSE IF c \in DocInfo THEN 1 ELSE 2

SetMax(S) == IF S = {} THEN 0 ELSE CHOOSE x \in S : \A y \in S : y <= x

\* C3: computeSeverity is the highest tier among the tiers of the given
\* categories: 2 categories are block, 7 are info, the other 16 of the 25 are
\* warn; the empty array gives none and no non-empty array gives none
C3_SeverityIsHighestTier ==
    /\ Cardinality(HonestraReason) = 25
    /\ Cardinality(HonestraReason \ (DocBlock \cup DocInfo)) = 16
    /\ (pc = "done" /\ op = "severity") =>
           /\ severityToScore(sevOut.all) =
                  SetMax({DocTier(sevIn.all[i]) : i \in 1..Len(sevIn.all)})
           /\ sevOut.all = "none" <=> sevIn.all = <<>>

C3_Witness ==
    /\ pc = "done" /\ op = "severity"
    /\ sevIn.all = <<"time_teleology", "narrative_fallacy">>
    /\ sevOut.all = "warn"

\* C4: for an array S whose elements all occur in T, computeSeverity(S) <=
\* computeSeverity(T) in the order none < info < warn < block, and a T that
\* holds a block-tier category gives block
C4_SeverityMonotone ==
    (pc = "done" /\ op = "severity") =>
        /\ severityToScore(sevOut.sub) <= severityToScore(sevOut.all)
        /\ (\E i \in 1..Len(sevIn.all) : sevIn.all[i] \in DocBlock) =>
               sevOut.all = "block"

C4_Witness ==
    /\ pc = "done" /\ op = "severity"
    /\ sevIn.sub = <<"anthropomorphic_self">>
    /\ sevIn.all = <<"anthropomorphic_self", "victim_narrative">>
    /\ sevOut.sub = "info"
    /\ sevOut.all = "block"

\* C5: the policy rules in order, first match wins: allow if score < 0.2 or
\* the type is null or harmless/weak; else block if (hard framing and score >=
\* 0.7) or risk high; else warn if hard framing or risk medium; else annotate
C5_PolicyCascade ==
    (pc = "done" /\ op = "policy") =>
        LET hard == polIn.teleologyType \in {"moralistic", "religious", "national/ideological"}
            allow == polIn.teleologyScore < 20
                     \/ polIn.teleologyType \in {"null", "harmless/weak"}
            block == (hard /\ polIn.teleologyScore >= 70) \/ polIn.manipulationRisk = "high"
            warn == hard \/ polIn.manipulationRisk = "medium"
        IN /\ allow => polOut = "allow"
           /\ (~allow /\ block) => polOut = "block"
           /\ (~allow /\ ~block /\ warn) => polOut = "warn"
           /\ (~allow /\ ~block /\ ~warn) => polOut = "annotate"

C5_Witness ==
    /\ pc = "done" /\ op = "policy"
    /\ polIn = [teleologyScore |-> 75, teleologyType |-> "religious",
                manipulationRisk |-> "low"]
    /\ polOut = "block"

\* C6: honestraFilter emits a change for (sentence, category c) exactly when c
\* is detected in the sentence and the rewrite by c's own substitution rules
\* differs from the sentence
C6_ChangePerDedicatedRewrite ==
    GuardDone =>
        \A i \in 1..Len(detected) : \A c \in HonestraReason :
            (\E j \in ChangesOf(detected[i].sentence) : payload.changes[j].reason = c)
            <=> /\ Includes(detected[i].reasons, c)
                /\ RewriteDedicated(detected[i].sentence, c) # detected[i].sentence

MatchingReasons(sentence) ==
    {teleologyPatterns[r].reason :
        r \in {q \in RuleIds : Search(teleologyPatterns[q].alts, sentence, 1)[1] # 0}}

\* C8: detectTeleology returns every category that has a matching rule, each
\* exactly once
C8_DetectsEveryCategoryOnce ==
    GuardDone =>
        \A i \in 1..Len(detected) :
            LET reasons == detected[i].reasons IN
            /\ {reasons[k] : k \in 1..Len(reasons)} = MatchingReasons(detected[i].sentence)
            /\ \A k, l \in 1..Len(reasons) : reasons[k] = reasons[l] => k = l

C8_Witness ==
    /\ GuardDone
    /\ \E i \in 1..Len(detected) :
           /\ Includes(detected[i].reasons, "cosmic_purpose")
           /\ Includes(detected[i].reasons, "destiny_language")

\* C9: a call of the guard on a text returns the payload an earlier call on
\* the same text returned, whatever guard or analyzeDocument calls were made
\* in between, and no call changes the state of the catalog
C9_HistoryIndependent ==
    /\ lastIndex = FreshCatalog
    /\ (GuardDone /\ memo.set /\ memo.input = input) => payload = memo.payload

C9_Witness ==
    /\ GuardDone
    /\ memo.set
    /\ memo.interleaved
    /\ memo.input = input
    /\ payload.hasTeleology
    /\ payload = memo.payload

\* C10: for an empty or whitespace-only text the payload has hasTeleology
\* false, no reasons, no changes, score 0 and severity none
C10_BlankInput ==
    (GuardDone /\ Trim(input) = <<>>) =>
        payload = [hasTeleology |-> FALSE, teleologyScore |-> 0, reasons |-> <<>>,
                   severity |-> "none", changes |-> <<>>]

C10_Witness ==
    /\ GuardDone
    /\ Len(input) = 2
    /\ Trim(input) = <<>>
    /\ detected = <<>>
    /\ payload.severity = "none"

DocDone == pc = "done" /\ op = "document"

\* C11: for every document 0 <= teleologyDensity <= 1 and 0 <=
\* infiltrationScore <= 1, also where the multipliers 1.2 x 1.2 at density 1
\* give more than 1 before the clamp
C11_ScoresInUnitInterval ==
    DocDone =>
        /\ doc.summary.teleologyDensity.den > 0
        /\ doc.summary.teleologyDensity.num >= 0
        /\ doc.summary.teleologyDensity.num <= doc.summary.teleologyDensity.den
        /\ doc.summary.infiltrationScore.den > 0
        /\ doc.summary.infiltrationScore.num >= 0
        /\ doc.summary.infiltrationScore.num <= doc.summary.infiltrationScore.den

C11_Witness ==
    /\ DocDone
    /\ doc.summary.teleologyDensity = Ratio(1, 1)
    /\ hasSelfBlameCosmic(doc.sentences)
    /\ doc.summary.cosmicRatio = Ratio(1, 1)
    /\ doc.summary.infiltrationScore = Ratio(1, 1)

\* C12: documentStatus is globally_clean iff teleologyDensity < 0.05 and
\* infiltrationScore < 0.2; otherwise globally_teleological iff
\* infiltrationScore >= 0.6; otherwise mixed
C12_DocumentStatus ==
    DocDone =>
        LET clean == /\ 100 * doc.summary.teleologyDensity.num
                          < 5 * doc.summary.teleologyDensity.den
                     /\ 10 * doc.summary.infiltrationScore.num
                          < 2 * doc.summary.infiltrationScore.den
            teleo == 10 * doc.summary.infiltrationScore.num
                       >= 6 * doc.summary.infiltrationScore.den
        IN /\ doc.summary.documentStatus = "globally_clean" <=> clean
           /\ doc.summary.documentStatus = "globally_teleological" <=> (~clean /\ teleo)
           /\ doc.summary.documentStatus = "mixed" <=> (~clean /\ ~teleo)

\* 10 sentences, 1 teleological, no critique or cosmic adjustment: density
\* 0.1, infiltration 0.1, status mixed
C12_Witness ==
    /\ DocDone
    /\ doc.summary.totalSentences = 10
    /\ doc.summary.teleologicalSentences = 1
    /\ doc.summary.teleologyDensity = Ratio(1, 10)
    /\ doc.summary.infiltrationScore = Ratio(1, 10)
    /\ doc.summary.documentStatus = "mixed"

\* C13: infiltrationLabel is high iff infiltrationScore >= 0.6, medium iff
\* 0.25 <= infiltrationScore < 0.6, low otherwise; infiltrationLabel = high
\* exactly when documentStatus = globally_teleological
C13_InfiltrationLabel ==
    DocDone =>
        LET high == 10 * doc.summary.infiltrationScore.num
                      >= 6 * doc.summary.infiltrationScore.den
            medium == 100 * doc.summary.infiltrationScore.num
                        >= 25 * doc.summary.infiltrationScore.den
        IN /\ doc.summary.infiltrationLabel = "high" <=> high
           /\ doc.summary.infiltrationLabel = "medium" <=> (medium /\ ~high)
           /\ doc.summary.infiltrationLabel = "low" <=> ~medium
           /\ doc.summary.infiltrationLabel = "high"
                  <=> doc.summary.documentStatus = "globally_teleological"

C13_Witness ==
    /\ DocDone
    /\ doc.summary.infiltrationLabel = "high"
    /\ doc.summary.documentStatus = "globally_teleological"
    /\ doc.summary.infiltrationScore = Ratio(144, 200)

\* C14: summary.maxSeverity is the maximum of guard.severity over the
\* sentences flagged isTeleological, and none when there is none
C14_MaxSeverity ==
    DocDone =>
        severityToScore(doc.summary.maxSeverity) =
            SetMax({severityToScore(doc.sentences[i].guard.severity) :
                       i \in {j \in 1..Len(doc.sentences) : doc.sentences[j].isTeleological}})

C14_Witness ==
    /\ DocDone
    /\ Len(doc.sentences) >= 3
    /\ doc.sentences[Len(doc.sentences) - 1].guard.severity = "block"
    /\ doc.sentences[Len(doc.sentences)].guard.severity = "info"
    /\ doc.summary.maxSeverity = "block"

\* the positions of the text inside the span of sentence i
SpanPositions(i) == (doc.sentences[i].startOffset + 1)..doc.sentences[i].endOffset

\* C17: the spans of the document segmenter are increasing and do not
\* overlap, lie inside the text, hold the text of their sentence, and leave
\* out only whitespace
C17_SpansPartitionText ==
    DocDone =>
        /\ \A i \in 1..Len(doc.sentences) :
               /\ 0 <= doc.sentences[i].startOffset
               /\ doc.sentences[i].startOffset < doc.sentences[i].endOffset
               /\ doc.sentences[i].endOffset <= Len(input)
               /\ SubSeq(input, doc.sentences[i].startOffset + 1,
                         doc.sentences[i].endOffset) = doc.sentences[i].text
               /\ i > 1 => doc.sentences[i].startOffset >= doc.sentences[i - 1].endOffset
        /\ \A p \in 1..Len(input) :
               (\A i \in 1..Len(doc.sentences) : p \notin SpanPositions(i))
                   => input[p] \in WS

C17_Witness ==
    /\ DocDone
    /\ Len(doc.sentences) = 2
    /\ doc.sentences[1].text = doc.sentences[2].text
    /\ doc.sentences[2].startOffset > doc.sentences[1].endOffset

---------------------------------------------------------------------------
(* teleologyEngine.ts and POST /api/firewall *)

FirewallDone == pc = "done" /\ op = "firewall" /\ fw.response.status # 400

\* the call was not made, or it settled without a usable JSON object
GeneratorFailed ==
    \/ ~fw.apiKey
    \/ fw.outcome.kind \in {"network_error", "timeout_error"}
    \/ fw.outcome.kind = "response" /\ fw.outcome.raw \in {"empty", "nonjson", "null"}

FieldOfWrongType(field) == fw.outcome.raw = "object" /\ field.type # "string"

\* C15: whatever way the external paraphrase generator fails (no credentials,
\* network error, timeout error, empty or non-JSON content, a field that is
\* not a string), analyzeTeleology returns normally (the route answers 200),
\* the failed fields are null (both of them when the call as a whole failed),
\* and score, type, risk and detected phrases are the heuristic ones
C15_GeneratorFailureGivesNulls ==
    FirewallDone =>
        /\ fw.response.status = 200
        /\ ~fw.response.analysis.threw
        /\ fw.response.analysis.teleologyScore = fw.heuristics.teleologyScore
        /\ fw.response.analysis.teleologyType = fw.heuristics.teleologyType
        /\ fw.response.analysis.manipulationRisk = fw.heuristics.manipulationRisk
        /\ fw.response.analysis.detectedPhrases = fw.heuristics.detectedPhrases
        /\ GeneratorFailed =>
               /\ fw.response.analysis.purposeClaim.null
               /\ fw.response.analysis.neutralCausalParaphrase.null
        /\ FieldOfWrongType(fw.outcome.purposeClaim) =>
               fw.response.analysis.purposeClaim.null
        /\ FieldOfWrongType(fw.outcome.neutralCausalParaphrase) =>
               fw.response.analysis.neutralCausalParaphrase.null

\* a request with a keyword whose external call ended in a timeout error
C15_Witness ==
    /\ FirewallDone
    /\ fw.outcome.kind = "timeout_error"
    /\ fw.response.analysis.teleologyScore > 0
    /\ fw.response.analysis.purposeClaim.null

\* C16: the external call never blocks the rest of the analysis: a request
\* that waits for it is eventually answered, even if the service never responds
C16_AwaitingLeadsToDone ==
    (pc = "awaiting") ~> (pc = "done")

\* C18: the documented request is answered with decision.action = block,
\* teleologyType national/ideological and manipulationRisk high
C18_DocumentedResponse ==
    (FirewallDone /\ input = DocumentedText) =>
        /\ fw.response.action = "block"
        /\ fw.response.analysis.teleologyType = "national/ideological"
        /\ fw.response.analysis.manipulationRisk = "high"

---------------------------------------------------------------------------
(* scripts/labelHonestraLogs.ts *)

\* the keys of the records the output file held when the session started
KeysAtStart ==
    {getEntryKey(lt.out[i]) : i \in {j \in 1..lt.startLen : lt.out[j].kind = "entry"}}

\* the entries of the log read so far, by position
EntriesRead == {i \in 1..lt.session.pos : lt.log[i].kind = "entry"}

ShownSet == {lt.session.shown[i] : i \in 1..Len(lt.session.shown)}

\* C19: during a session an entry of the log is displayed iff its key is not
\* among the keys of the records the output file held at the start of the
\* session, and no record is appended for an entry whose key is among them
C19_ResumeSkipsRecorded ==
    (op = "label" /\ pc \in {"prompting", "done"}) =>
        /\ \A i \in EntriesRead :
               i \in ShownSet <=> getEntryKey(lt.log[i]) \notin KeysAtStart
        /\ \A j \in (lt.startLen + 1)..Len(lt.out) :
               getEntryKey(lt.out[j]) \notin KeysAtStart

\* a session over a file that holds a record after a line that does not
\* parse: the recorded entry is passed over and another one is labeled
C19_Witness ==
    /\ op = "label"
    /\ pc = "done"
    /\ lt.startLen = 2
    /\ lt.out[1].kind = "garbage"
    /\ Len(lt.session.passed) = 1
    /\ Len(lt.session.shown) = 1
    /\ Len(lt.out) = 3
    /\ ~lt.out[3].skip

\* the entries displayed before the one at the prompt
ShownEarlier ==
    {lt.session.shown[i] : i \in 1..(Len(lt.session.shown) - 1)}

\* C20: when q is entered at a prompt (teleology level, teleology note,
\* adequacy level, adequacy note) the session ends, and every label or skip
\* completed for an earlier entry is in the output file
C20_QuitAtAnyPrompt ==
    (op = "label" /\ lt.session.asked # "none" /\ lt.session.answer = <<"q">>) =>
        /\ pc = "done"
        /\ lt.session.closed
        /\ Len(lt.out) - lt.startLen = lt.session.labeledCount + lt.session.skippedCount
        /\ \A i \in ShownEarlier :
               \E j \in (lt.startLen + 1)..Len(lt.out) :
                   getEntryKey(lt.out[j]) = getEntryKey(lt.log[i])

---------------------------------------------------------------------------
(* honestraDocument.ts: the infiltration heuristic and the summary *)

TeleologicalIn(sentences) == {i \in 1..Len(sentences) : sentences[i].isTeleological}
CritiqueIn(sentences) ==
    {i \in TeleologicalIn(sentences) : sentences[i].isCritiqueContext}
CosmicIn(sentences) == {i \in TeleologicalIn(sentences) : sentences[i].isCosmic}

\* the multipliers of the claim, in tenths
CritiqueTenths(critique, teleological) ==
    IF 10 * critique > 6 * teleological THEN 3
    ELSE IF 10 * critique > 3 * teleological THEN 6
    ELSE 10

CosmicTenths(cosmic, teleological) ==
    IF 10 * cosmic > 5 * teleological THEN 12 ELSE 10

SelfBlameTenths(sentences) ==
    IF \E i \in CosmicIn(sentences) : hasSelfBlamePatterns(sentences[i].text)
    THEN 12 ELSE 10

\* teleologyDensity x c x k x b, before the clamp
Unclamped(density, sentences) ==
    Ratio(density.num
              * CritiqueTenths(Cardinality(CritiqueIn(sentences)),
                               Cardinality(TeleologicalIn(sentences)))
              * CosmicTenths(Cardinality(CosmicIn(sentences)),
                             Cardinality(TeleologicalIn(sentences)))
              * SelfBlameTenths(sentences),
          density.den * 1000)

RatioEq(p, q) == p.num * q.den = q.num * p.den

\* C21: infiltrationScore is teleologyDensity x c x k x b clamped once to
\* [0, 1]: c = 0.3 if critiqueRatio > 0.6, 0.6 if 0.3 < critiqueRatio <= 0.6,
\* else 1; k = 1.2 if cosmicRatio > 0.5 else 1; b = 1.2 if a sentence is
\* teleological, cosmic and self-blaming, else 1; the ratios are over the
\* teleological sentences and 0 when there is none
C21_InfiltrationFormula ==
    DocDone =>
        LET u == Unclamped(doc.summary.teleologyDensity, doc.sentences)
        IN /\ u.num <= u.den => RatioEq(doc.summary.infiltrationScore, u)
           /\ u.num > u.den => RatioEq(doc.summary.infiltrationScore, Ratio(1, 1))

\* five teleological sentences of which three stand in critique context:
\* the ratio is exactly 0.6 and the multiplier 0.6
C21_Witness ==
    /\ DocDone
    /\ Cardinality(TeleologicalIn(doc.sentences)) = 5
    /\ Cardinality(CritiqueIn(doc.sentences)) = 3
    /\ doc.summary.teleologyDensity = Ratio(5, 5)
    /\ RatioEq(doc.summary.infiltrationScore, Ratio(6, 10))

\* C22: the document segmenter ends the sentence at every period, question
\* mark, exclamation mark, newline, carriage return and maqaf (U+05BE): no
\* span has one of them with text on both sides of it
C22_DelimiterEndsSentence ==
    DocDone =>
        \A i \in 1..Len(doc.sentences) :
            \A k \in 2..(Len(doc.sentences[i].text) - 1) :
                doc.sentences[i].text[k] \in DocSplitTokens =>
                    ~ /\ \E a \in 1..(k - 1) :
                            doc.sentences[i].text[a] \notin DocSplitTokens \cup WS
                      /\ \E b \in (k + 1)..Len(doc.sentences[i].text) :
                            doc.sentences[i].text[b] \notin DocSplitTokens \cup WS

\* where the sentences stand: the text is cut after every token that closes
\* a sentence, and a sentence reaches from the first to the last token of
\* its piece that is not whitespace; positions are counted from 0, the end
\* is exclusive
Cuts(text) ==
    {0, Len(text)} \cup {p \in 1..Len(text) : text[p] \in DocFlushTokens}

NextCut(text, a) ==
    CHOOSE b \in Cuts(text) : b > a /\ \A c \in Cuts(text) : c > a => b <= c

Inked(text, a) == {p \in (a + 1)..NextCut(text, a) : text[p] \notin WS}

First(S) == CHOOSE p \in S : \A q \in S : p <= q
Last(S) == CHOOSE p \in S : \A q \in S : q <= p

ActualExtents(text) ==
    { <<First(Inked(text, a)) - 1, Last(Inked(text, a))>> :
        a \in {c \in Cuts(text) : c < Len(text) /\ Inked(text, c) # {}} }

ExtentOf(span) == <<span.start, span.end>>

\* C23 as stated: there is a document, the analysed one or another one of
\* repeated sentences, with a span whose offsets are not the position where
\* its sentence stands
C23_CanMisattribute ==
    DocDone =>
        \E text \in SpanInputs \cup {input} :
            \E i \in 1..Len(splitIntoSentencesDoc(text)) :
                ExtentOf(splitIntoSentencesDoc(text)[i]) \notin ActualExtents(text)

\* C23, amended: every span has the offsets of the position where its
\* sentence stands, also when the same sentence text occurs more than once:
\* the search starts at the end of the previous span and only whitespace
\* lies between that and the sentence
C23_OffsetsWhereSentenceStands ==
    DocDone =>
        /\ {<<doc.sentences[i].startOffset, doc.sentences[i].endOffset>> :
                i \in 1..Len(doc.sentences)} = ActualExtents(input)
        /\ \A i, j \in 1..Len(doc.sentences) :
               i < j => doc.sentences[i].startOffset < doc.sentences[j].startOffset

\* the same sentence three times, each at its own place
C23_Witness ==
    /\ DocDone
    /\ Len(doc.sentences) = 3
    /\ doc.sentences[1].text = doc.sentences[2].text
    /\ doc.sentences[2].text = doc.sentences[3].text
    /\ doc.sentences[1].endOffset <= doc.sentences[2].startOffset
    /\ doc.sentences[2].endOffset <= doc.sentences[3].startOffset

\* C26: summary.totalSentences is the number of entries of the sentences
\* list, also for an empty or whitespace-only document
C26_TotalSentencesIsLength ==
    DocDone => doc.summary.totalSentences = Len(doc.sentences)

\* C27: documentStatus is globally_clean iff teleologyDensity < 0.05: the
\* infiltrationScore is at most 1.44 x teleologyDensity, which is below 0.2
\* whenever the density is below 0.05
C27_CleanIffSparse ==
    DocDone =>
        /\ doc.summary.documentStatus = "globally_clean"
               <=> 100 * doc.summary.teleologyDensity.num
                       < 5 * doc.summary.teleologyDensity.den
        /\ 100 * doc.summary.infiltrationScore.num * doc.summary.teleologyDensity.den
               <= 144 * doc.summary.teleologyDensity.num
                      * doc.summary.infiltrationScore.den

\* 21 sentences of which one is teleological, cosmic and self-blaming: the
\* infiltrationScore is 1.44 / 21 and the document is globally_clean
C27_Witness ==
    /\ DocDone
    /\ Len(doc.sentences) = 21
    /\ doc.summary.teleologicalSentences = 1
    /\ RatioEq(doc.summary.infiltrationScore, Ratio(144, 2100))
    /\ doc.summary.documentStatus = "globally_clean"

---------------------------------------------------------------------------
(* honestra.ts: the rewrite, the severity of the payload, the second pass *)

\* the text that stands for sentence i of the trace in filteredText: the
\* rewritten text of its changes, or the sentence when it has none
Representative(i) ==
    IF ChangesOf(detected[i].sentence) = {} THEN detected[i].sentence
    ELSE payload.changes[CHOOSE j \in ChangesOf(detected[i].sentence) : TRUE].rewritten

C25_SeverityOfChanges ==
    GuardDone =>
        /\ payload.severity
               = computeSeverity(Distinct(ReasonsOf(payload.changes), 1, <<>>))
        /\ payload.severity = "none" <=> ~payload.hasTeleology

\* changes of two categories of different tiers: the higher one decides
C25_Witness ==
    /\ GuardDone
    /\ payload.hasTeleology
    /\ payload.severity = "warn"
    /\ \E i, j \in 1..Len(payload.changes) :
           /\ computeSeverity(<<payload.changes[i].reason>>) = "info"
           /\ computeSeverity(<<payload.changes[j].reason>>) = "warn"

---------------------------------------------------------------------------
(* POST /api/firewall: heuristics and default policy together *)

\* the lower-cased text holds one of the keywords
HasKeyword(text) ==
    \E k \in 1..Len(teleologyKeywords) :
        LowerIncludes(ToLowerCase(text), teleologyKeywords[k])

\* C28: the firewall answers allow iff the text holds no teleology keyword:
\* the score is 0 without a keyword and at least 0.4 with one or more, above
\* the minimum of 0.2, and teleologyType is null exactly when the score is 0
C28_AllowIffNoKeyword ==
    (FirewallDone /\ fw.response.status = 200) =>
        /\ fw.response.action = "allow" <=> ~HasKeyword(input)
        /\ ~HasKeyword(input) => fw.response.analysis.teleologyScore = 0
        /\ HasKeyword(input) => fw.response.analysis.teleologyScore >= 40
        /\ fw.response.analysis.teleologyType = "null"
               <=> fw.response.analysis.teleologyScore = 0

\* one keyword, personal and of low risk: score 0.4 and the answer annotate
C28_Witness ==
    /\ FirewallDone
    /\ fw.response.status = 200
    /\ Len(fw.response.analysis.detectedPhrases) = 1
    /\ fw.response.analysis.teleologyScore = 40
    /\ fw.response.analysis.teleologyType = "personal"
    /\ fw.response.action = "annotate"

RefilterDone == pc = "done" /\ op = "refilter"

\* C29: filtering is idempotent: the filter applied to its own filteredText
\* gives no change and returns the text as it is
C29_FilterIdempotent ==
    RefilterDone =>
        /\ payload.changes = <<>>
        /\ filtered = input

---------------------------------------------------------------------------
(* scripts/labelHonestraLogs.ts: the records of the output file *)

\* C30: over any sequence of sessions on the same log, the output file holds
\* at most one record, labeled or skipped, for an entry key
C30_OneRecordPerKey ==
    \A i, j \in 1..Len(lt.out) :
        (i < j /\ lt.out[i].kind = "entry" /\ lt.out[j].kind = "entry")
            => getEntryKey(lt.out[i]) # getEntryKey(lt.out[j])

====
